---- MODULE Spec2Model ----
(***************************************************************************)
(* Local-Ai: context-budget and orchestration engine.                      *)
(*                                                                         *)
(* Texts are modelled by what the code reads of them: a message content is *)
(* [n, pad] (n characters that survive str.strip(), pad characters of      *)
(* surrounding whitespace), a summary is [src, len, ell] (which text it is *)
(* a prefix of, its length, whether it ends in an added "...").            *)
(*                                                                         *)
(* Specifications:                                                         *)
(*   SpecBudget  LocalResponsesService._ensure_budget on a stored thread   *)
(*   SpecChat    the non-streaming chat call and its retries               *)
(*   SpecStream  LLMClient.chat_stream: requests, chunks, SSE decoding     *)
(*   SpecTool    tooling.maybe_call_one_tool on a model reply              *)
(*   Spec        one request (a turn, a streamed turn, a manual fold) on a *)
(*               store left by earlier turns                               *)
(*   SpecDb      one Database statement under _execute_with_retry          *)
(*   SpecFollow  a turn and the turn that follows it up                    *)
(*   SpecRace    two turns running concurrently on one thread              *)
(*   SpecOrder   inserts into table messages and a read of it              *)
(*   SpecRefold  folds of one unchanged thread, one after the other        *)
(*   SpecArgs    tooling._validate_args on a schema and an argument map    *)
(*   SpecUpsert  two concurrent Database.upsert_profile_kv calls of a key  *)
(***************************************************************************)
EXTENDS Integers, Sequences, FiniteSets, TLC

VARIABLES
    s,          \* Settings (app/config.py)
    messages,   \* table messages, in insertion order; a message's id is its index
    summaries,  \* table summaries: thread id -> summary text or NoSummary
    profile,    \* profiles row "user.name": length of the stored name, -1 when no row
    eb,         \* the running _ensure_budget call: its locals and position
    pj,         \* the running non-streaming chat call (_post_json_with_retries, chat_once)
    wire,       \* the bytes the backend sends on a streaming request
    cs,         \* the running LLMClient.chat_stream call
    tc,         \* the running maybe_call_one_tool call
    threads,    \* table threads: the ids created
    responses,  \* table responses, in insertion order; a response's id is its index
    fold,       \* the last fold: its entry point, thread and backend outcome; n counts the folds
    tn,         \* the running request: POST /responses, /ws/respond or POST summarize
    db,         \* the running Database.execute / fetch_one / fetch_all call
    rc,         \* two POST /responses turns running concurrently on one thread
    tbl,        \* table messages with its created_at column, and the last read of it
    rf,         \* the folds of one thread run one after the other, and what each sent
    va,         \* the running _validate_args call: its schema, arguments and result
    up          \* two upsert_profile_kv calls of the key "user.name" running concurrently

storeVars == <<messages, summaries, profile>>
budgetVars == <<s, messages, summaries, profile, eb, fold>>
clientVars == <<pj, wire, cs>>
turnVars == <<threads, responses, tn>>
ext == <<db, rc, tbl, rf, va, up>>
vars == <<s, messages, summaries, profile, eb, pj, wire, cs, tc, threads, responses, fold, tn, ext>>
\* what the steps of _ensure_budget leave alone besides the store
notBudget == <<clientVars, tc, ext, turnVars>>

\* ---------------------------------------------------------------- bounds

MaxMsgs == 3        \* stored messages of a thread in an initial state
MaxCalls == 2       \* tool calls listed in one model reply
MaxThreads == 2     \* thread ids the store can hold
MaxHistory == 1     \* earlier turns whose messages an initial store holds
MaxDeltas == 1      \* deltas of one streamed reply
MaxRows == 3        \* rows inserted into table messages before it is read
MaxFolds == 2       \* cap of the fold counter kept for the claims
MaxRefolds == 2     \* folds of one thread run one after the other

\* ------------------------------------------------------- program constants

SystemPromptLen == 166      \* len(SYSTEM_PROMPT)
FactPrefixLen == 29         \* len("Факты о пользователе: имя = " + ".")
SummaryPrefixLen == 16      \* len("Thread summary: ")
FoldLimit == 5000           \* _fold_history reads the last 5000 messages

\* ------------------------------------------------------------ helpers

Max(a, b) == IF a >= b THEN a ELSE b
Min(a, b) == IF a <= b THEN a ELSE b

Reverse(q) == [i \in 1..Len(q) |-> q[Len(q) + 1 - i]]

RECURSIVE SumSeq(_)
SumSeq(q) == IF q = <<>> THEN 0 ELSE Head(q) + SumSeq(Tail(q))

GhostThread == 99   \* a thread id a client made up: no row of table threads
Threads == (1..MaxThreads) \cup {GhostThread}
Roles == {"user", "assistant", "tool"}

NoSummary == [src |-> "none", len |-> 0, ell |-> FALSE]

\* len(content) of a stored message
ContentLen(c) == c.n + c.pad

\* ------------------------------------------------------ token estimator

\* estimate_messages_tokens: sum of max(1, int(len(c)/4)+2) over the list
estimate_messages_tokens(chat) ==
    SumSeq([i \in 1..Len(chat) |-> Max(1, (chat[i].len \div 4) + 2)])

\* estimate_tokens: max(1, int(len(text)/4)+1)
estimate_tokens(len) == Max(1, (len \div 4) + 1)

\* ---------------------------------------------------------------- store

\* ids (indices) of the messages of a thread, oldest first
ThreadIds(msgs, tid) ==
    SelectSeq([i \in 1..Len(msgs) |-> i], LAMBDA i : msgs[i].thread_id = tid)

\* (mutant) the newest row is passed over: rows 2..limit+1 of the ordering
get_thread_messages_skips_newest(msgs, tid, limit) ==
    LET desc == Reverse(ThreadIds(msgs, tid))
    IN  SubSeq(desc, 2, Min(limit + 1, Len(desc)))

\* Database.get_thread_messages: ORDER BY created_at DESC LIMIT ?
get_thread_messages(msgs, tid, limit) ==
    LET desc == Reverse(ThreadIds(msgs, tid))
    IN  SubSeq(desc, 1, Min(limit, Len(desc)))

\* Database.get_summary: the content, or None when the thread has no row
get_summary(sums, tid) == sums[tid]

\* Database.upsert_summary
upsert_summary(sums, tid, text) == [sums EXCEPT ![tid] = text]

\* ------------------------------------------------------- build_context

SystemMsg == [role |-> "system", len |-> SystemPromptLen, ref |-> 0]

\* `if uname:` a stored, non-empty name adds the fact line
FactMsgs(prof) ==
    IF prof > 0
    THEN <<[role |-> "system", len |-> FactPrefixLen + prof, ref |-> -1]>>
    ELSE <<>>

\* `if summary:` a stored, non-empty summary adds the summary line
SummaryMsgs(sums, tid) ==
    LET sm == get_summary(sums, tid)
    IN  IF sm.src # "none" /\ sm.len > 0
        THEN <<[role |-> "system", len |-> SummaryPrefixLen + sm.len, ref |-> -2]>>
        ELSE <<>>

RecentMsgs(msgs, tid, k) ==
    LET recent == Reverse(get_thread_messages(msgs, tid, k))
    IN  [i \in 1..Len(recent) |->
            [role |-> msgs[recent[i]].role,
             len |-> ContentLen(msgs[recent[i]].content),
             ref |-> recent[i]]]

build_context(msgs, sums, prof, tid, k) ==
    <<SystemMsg>> \o FactMsgs(prof) \o SummaryMsgs(sums, tid) \o RecentMsgs(msgs, tid, k)

\* ------------------------------------------------------- _fold_history

RoleLen(r) == IF r = "assistant" THEN 9 ELSE IF r = "system" THEN 6 ELSE 4

\* the rows _fold_history folds: not role tool, content non-empty after strip()
FoldRows(msgs, tid, limit) ==
    SelectSeq(Reverse(get_thread_messages(msgs, tid, limit)),
              LAMBDA i : msgs[i].role # "tool" /\ msgs[i].content.n > 0)

\* len("\n".join(f"{role}: {content}")): extra = 2 for "role: ", 3 for "[role] "
ConvoLen(msgs, rows, extra) ==
    IF rows = <<>> THEN 0
    ELSE SumSeq([j \in 1..Len(rows) |->
                    RoleLen(msgs[rows[j]].role) + extra + msgs[rows[j]].content.n])
         + (Len(rows) - 1)

\* what the backend may answer to a summarisation request
SummaryLens == {0, 1000, 1001}
SummaryReplies == {[src |-> "llm", len |-> l, ell |-> FALSE] : l \in SummaryLens}

\* (mutant) the except branch stores a text of its own instead of returning
_fold_history_stores_on_error(sums, msgs, tid, ok, reply) ==
    IF ConvoLen(msgs, FoldRows(msgs, tid, FoldLimit), 2) = 0 THEN sums
    ELSE upsert_summary(sums, tid, IF ok THEN reply
                                   ELSE [src |-> "error", len |-> 0, ell |-> FALSE])

\* _fold_history with the backend's outcome: ok (a reply text) or an exception.
\* Nothing is stored when there is nothing to fold or when the call fails; the
\* reply is stored as returned otherwise.
_fold_history(sums, msgs, tid, ok, reply) ==
    IF ConvoLen(msgs, FoldRows(msgs, tid, FoldLimit), 2) = 0 THEN sums
    ELSE IF ~ok THEN sums
    ELSE upsert_summary(sums, tid, reply)

\* the outcomes of a fold's backend call; none is made (skipped) when
\* _fold_history finds nothing to fold
FoldOutcomes(skipped) ==
    IF skipped
    THEN {[ok |-> FALSE, reply |-> NoSummary, outcome |-> "empty"]}
    ELSE {[ok |-> TRUE, reply |-> r, outcome |-> "ok"] : r \in SummaryReplies}
         \cup {[ok |-> FALSE, reply |-> NoSummary, outcome |-> "failed"]}

\* ------------------------------------------------------- _ensure_budget

\* int(context_window_tokens * context_prompt_budget_ratio); the ratio is kept
\* in hundredths
_apply_budget(st) == (st.context_window_tokens * st.ratio_pct) \div 100

\* k * 0.7 in double arithmetic: 0.7 is stored as a binary fraction a little
\* below 7/10, and for these k, of the k up to 100, the rounded product stays
\* below the integer 7k/10 (90 * 0.7 = 62.99999999999999)
RoundsBelow == {90}

\* k = max(1, int(k * 0.7)); int() truncates the double
ShrinkK(k) ==
    Max(1, IF k \in RoundsBelow THEN (7 * k) \div 10 - 1 ELSE (7 * k) \div 10)

\* what debug_context reports; ran: it has been called
NoDebug == [ran |-> FALSE, budget_tokens |-> 0, estimated_used |-> 0, k_last_used |-> 0]

EbIdle == [pc |-> "idle", thread_id |-> 1, chat |-> <<>>, used |-> 0,
           budget |-> 0, k |-> 0, folds |-> 0, u0 |-> 0, dbg |-> NoDebug]

\* (mutant) the fold decision leaves the hysteresis out: `if used > budget`
EbBuildNoHysteresis ==
    /\ eb.pc = "build"
    /\ LET chat == build_context(messages, summaries, profile, eb.thread_id,
                                 s.max_context_messages)
           used == estimate_messages_tokens(chat)
           budget == _apply_budget(s)
       IN  eb' = [eb EXCEPT !.chat = chat, !.used = used, !.u0 = used,
                            !.budget = budget, !.k = s.max_context_messages,
                            !.pc = IF used > budget THEN "fold" ELSE "check"]
    /\ UNCHANGED <<s, storeVars, fold, notBudget>>

\* chat = build_context(thread_id); used; budget; the fold decision
EbBuild ==
    /\ eb.pc = "build"
    /\ LET chat == build_context(messages, summaries, profile, eb.thread_id,
                                 s.max_context_messages)
           used == estimate_messages_tokens(chat)
           budget == _apply_budget(s)
       IN  eb' = [eb EXCEPT !.chat = chat, !.used = used, !.u0 = used,
                            !.budget = budget, !.k = s.max_context_messages,
                            !.pc = IF used > budget + s.context_hysteresis_tokens
                                   THEN "fold" ELSE "check"]
    /\ UNCHANGED <<s, storeVars, fold, notBudget>>

\* await self._fold_history(thread_id); chat rebuilt, used recomputed
EbFold ==
    /\ eb.pc = "fold"
    /\ \E o \in FoldOutcomes(ConvoLen(messages, FoldRows(messages, eb.thread_id, FoldLimit), 2) = 0) :
        LET sums == _fold_history(summaries, messages, eb.thread_id, o.ok, o.reply)
            chat == build_context(messages, sums, profile, eb.thread_id,
                                  s.max_context_messages)
        IN  /\ summaries' = sums
            /\ fold' = [via |-> "_fold_history", thread_id |-> eb.thread_id,
                        outcome |-> o.outcome, n |-> fold.n + 1]
            /\ eb' = [eb EXCEPT !.chat = chat,
                                !.used = estimate_messages_tokens(chat),
                                !.folds = Min(MaxFolds, eb.folds + 1),
                                !.pc = "check"]
    /\ UNCHANGED <<s, messages, profile, notBudget>>

\* if used > budget: k = max_context_messages, enter the loop; else context_ok
EbCheck ==
    /\ eb.pc = "check"
    /\ eb' = [eb EXCEPT !.k = s.max_context_messages,
                        !.pc = IF eb.used > eb.budget THEN "shrink" ELSE "done"]
    /\ UNCHANGED <<s, storeVars, fold, notBudget>>

\* (mutant) the loop gives up at k == 2: `while used > budget and k > 2`
EbShrinkStopsAtTwo ==
    /\ eb.pc = "shrink"
    /\ IF eb.used > eb.budget /\ eb.k > 2
       THEN LET k == ShrinkK(eb.k)
                chat == build_context(messages, summaries, profile, eb.thread_id, k)
            IN  eb' = [eb EXCEPT !.k = k, !.chat = chat,
                                 !.used = estimate_messages_tokens(chat)]
       ELSE eb' = [eb EXCEPT !.pc = "done"]
    /\ UNCHANGED <<s, storeVars, fold, notBudget>>

\* one test of `while used > budget and k > 1` and, when it passes, one iteration
EbShrink ==
    /\ eb.pc = "shrink"
    /\ IF eb.used > eb.budget /\ eb.k > 1
       THEN LET k == ShrinkK(eb.k)
                chat == build_context(messages, summaries, profile, eb.thread_id, k)
            IN  eb' = [eb EXCEPT !.k = k, !.chat = chat,
                                 !.used = estimate_messages_tokens(chat)]
       ELSE eb' = [eb EXCEPT !.pc = "done"]
    /\ UNCHANGED <<s, storeVars, fold, notBudget>>

\* ------------------------------------------------------- debug_context

\* `while used > budget and k > 1` of debug_context, from the list built with k
RECURSIVE DebugShrink(_, _, _, _, _, _)
DebugShrink(msgs, sums, prof, tid, budget, k) ==
    LET used == estimate_messages_tokens(build_context(msgs, sums, prof, tid, k))
    IN  IF used > budget /\ k > 1
        THEN DebugShrink(msgs, sums, prof, tid, budget, ShrinkK(k))
        ELSE [k |-> k, used |-> used]

\* debug_context: budget_tokens, estimated_used and k_last_used of its answer
debug_context(msgs, sums, prof, tid, st) ==
    LET budget == (st.context_window_tokens * st.ratio_pct) \div 100
        r == DebugShrink(msgs, sums, prof, tid, budget, st.max_context_messages)
    IN  [ran |-> TRUE, budget_tokens |-> budget,
         estimated_used |-> r.used, k_last_used |-> r.k]

\* GET /debug/context for the thread, before the turn's _ensure_budget runs
DbgContext ==
    /\ eb.pc = "build"
    /\ ~eb.dbg.ran
    /\ eb' = [eb EXCEPT !.dbg = debug_context(messages, summaries, profile,
                                               eb.thread_id, s)]
    /\ UNCHANGED <<s, storeVars, fold, notBudget>>

\* ------------------------------------- non-streaming chat and its retries

max_retries == 3        \* LLMClient._post_json_with_retries(max_retries=3)
_MAX_RETRIES == 3       \* lm_client._MAX_RETRIES

Clients == {"llm_client", "lm_client"}

\* what one HTTP attempt may end in; the except clause catches HttpErrors only,
\* a body that is not JSON makes resp.json() raise a ValueError
HttpErrors == {"timeout", "request_error", "http_status"}
Outcomes == HttpErrors \cup {"ok", "bad_json"}

MaxRetries(client) == IF client = "llm_client" THEN max_retries ELSE _MAX_RETRIES

Pow2(n) == IF n <= 0 THEN 1 ELSE IF n = 1 THEN 2 ELSE 4

\* (mutant) the base is not doubled: `base = 0.25`, `base = 0.5`
BackoffBaseMsFlat(client, attempt) ==
    IF client = "llm_client" THEN 250 ELSE 500

\* the backoff base after failed attempt n, in ms: 0.25 * 2**(n-1) in llm_client,
\* 0.5 * 2**max(0, n-1) in lm_client
BackoffBaseMs(client, attempt) ==
    (IF client = "llm_client" THEN 250 ELSE 500) * Pow2(attempt - 1)

\* random.uniform(0, 0.15) and random.uniform(0.0, 0.25): the two ends
JitterMs(client) == IF client = "llm_client" THEN {0, 150} ELSE {0, 250}

NoErr == [attempt |-> 0, kind |-> "none"]

\* the `usage` object of a reply body: a map from the keys it holds to counts
NoUsageObj == [k \in {} |-> 0]

\* what chat reads of a reply body: the length of choices[0].message.content and
\* the usage object (NoUsageObj: the body has no `usage` key)
NoBody == [text_len |-> 0, usage |-> NoUsageObj]

PjIdle == [pc |-> "idle", client |-> "llm_client", attempt |-> 0, log |-> <<>>,
           err |-> NoErr, result |-> 0, waited |-> 0,
           chat |-> "idle", body |-> NoBody,
           usage |-> [prompt_tokens |-> 0, completion_tokens |-> 0, total_tokens |-> 0]]

PjStart(client) == [PjIdle EXCEPT !.pc = "try", !.client = client, !.attempt = 1]

\* (mutant) the first error is kept: `if last_err is None: last_err = e`
PjAfterKeepsFirstError(p, o) ==
    LET q == [p EXCEPT !.log = Append(@, o)]
        e == IF p.err.attempt = 0 THEN [attempt |-> p.attempt, kind |-> o] ELSE p.err
    IN  IF o = "ok" THEN [q EXCEPT !.pc = "returned", !.result = p.attempt]
        ELSE IF o = "bad_json" THEN [q EXCEPT !.pc = "raised", !.err = e]
        ELSE IF p.attempt >= MaxRetries(p.client)
             THEN [q EXCEPT !.pc = "raised", !.err = e]
             ELSE [q EXCEPT !.pc = "sleep", !.err = e]

\* one pass of the loop body up to the sleep: the post, raise_for_status, json()
PjAfter(p, o) ==
    LET q == [p EXCEPT !.log = Append(@, o)]
        e == [attempt |-> p.attempt, kind |-> o]
    IN  IF o = "ok" THEN [q EXCEPT !.pc = "returned", !.result = p.attempt]
        ELSE IF o = "bad_json" THEN [q EXCEPT !.pc = "raised", !.err = e]
        ELSE IF p.attempt >= MaxRetries(p.client)
             THEN [q EXCEPT !.pc = "raised", !.err = e]
             ELSE [q EXCEPT !.pc = "sleep", !.err = e]

PjAttempt ==
    /\ pj.pc = "try"
    /\ \E o \in Outcomes : pj' = PjAfter(pj, o)
    /\ UNCHANGED <<budgetVars, wire, cs, tc, ext, turnVars>>

\* await asyncio.sleep(base + jitter), then the next attempt
PjBackoff ==
    /\ pj.pc = "sleep"
    /\ \E j \in JitterMs(pj.client) :
        pj' = [pj EXCEPT !.waited = @ + BackoffBaseMs(pj.client, pj.attempt) + j,
                         !.attempt = @ + 1, !.pc = "try"]
    /\ UNCHANGED <<budgetVars, wire, cs, tc, ext, turnVars>>

\* the messages of the request of the model: one user message of 8 characters
ChatRequest == <<[role |-> "user", len |-> 8, ref |-> -3]>>

\* the reply bodies of the model: with no usage object, with a whole one, with
\* one that lacks total_tokens; an empty or an 8-character text
UsageObjs ==
    {NoUsageObj,
     [prompt_tokens |-> 12, completion_tokens |-> 3, total_tokens |-> 16],
     [prompt_tokens |-> 12, completion_tokens |-> 3]}

Bodies == {[text_len |-> n, usage |-> u] : n \in {0, 8}, u \in UsageObjs}

\* dict.get(key, default)
Get(obj, key, default) == IF key \in DOMAIN obj THEN obj[key] ELSE default

\* LLMClient.chat: the usage it returns for a reply body
ChatUsage(msgs, body) ==
    LET prompt_tokens == Get(body.usage, "prompt_tokens", 0)
        completion_tokens == Get(body.usage, "completion_tokens", 0)
    IN  [prompt_tokens |-> prompt_tokens, completion_tokens |-> completion_tokens,
         total_tokens |-> Get(body.usage, "total_tokens",
                              prompt_tokens + completion_tokens)]

\* LLMClient.chat after chat_raw has returned the body
PjChat ==
    /\ pj.pc = "returned"
    /\ pj.client = "llm_client"
    /\ pj.chat = "idle"
    /\ \E body \in Bodies :
        pj' = [pj EXCEPT !.chat = "returned", !.body = body,
                         !.usage = ChatUsage(ChatRequest, body)]
    /\ UNCHANGED <<budgetVars, wire, cs, tc, ext, turnVars>>

\* ------------------------------------------------------------ chat_stream

SSE_PREFIX == <<"d", "a", "t", "a", ":", " ">>
DONE == <<"[", "D", "O", "N", "E", "]">>
NL == "\n"

IsSpace(c) == c = " "

RECURSIVE lstrip(_)
lstrip(l) == IF l # <<>> /\ IsSpace(Head(l)) THEN lstrip(Tail(l)) ELSE l

\* bytes.strip()
strip(l) == Reverse(lstrip(Reverse(lstrip(l))))

FirstNL(b) ==
    IF \E i \in 1..Len(b) : b[i] = NL
    THEN CHOOSE i \in 1..Len(b) : b[i] = NL /\ \A j \in 1..(i - 1) : b[j] # NL
    ELSE 0

\* bytes.splitlines(): no empty last line after a final line break
RECURSIVE splitlines(_)
splitlines(b) ==
    IF Len(b) = 0 THEN <<>>
    ELSE LET i == FirstNL(b)
         IN  IF i = 0 THEN <<b>>
             ELSE <<SubSeq(b, 1, i - 1)>> \o splitlines(SubSeq(b, i + 1, Len(b)))

startswith(l, pre) == Len(l) >= Len(pre) /\ SubSeq(l, 1, Len(pre)) = pre

ContentChars == {"a", "b"}

\* json.loads(data) and the delta taken from it. The payloads of the model:
\*   {c}    choices[0].delta.content = c      {mc}   choices[0].message.content = c
\*   {}     an object with no content         anything else: not JSON
\* "" stands for `continue` and for an empty delta alike: neither yields.
DeltaOf(data) ==
    IF Len(data) = 3 /\ data[1] = "{" /\ data[2] \in ContentChars /\ data[3] = "}"
    THEN data[2]
    ELSE IF Len(data) = 4 /\ data[1] = "{" /\ data[2] = "m"
            /\ data[3] \in ContentChars /\ data[4] = "}"
    THEN data[3]
    ELSE ""

\* the body of `for line in chunk.splitlines()`: the deltas it yields and
\* whether it returned at the [DONE] sentinel
RECURSIVE ProcessLines(_)
ProcessLines(ls) ==
    IF Len(ls) = 0 THEN [out |-> <<>>, done |-> FALSE]
    ELSE LET line == strip(Head(ls))
             rest == ProcessLines(Tail(ls))
         IN  IF Len(line) = 0 \/ ~startswith(line, SSE_PREFIX) THEN rest
             ELSE LET data == SubSeq(line, Len(SSE_PREFIX) + 1, Len(line))
                  IN  IF data = DONE THEN [out |-> <<>>, done |-> TRUE]
                      ELSE IF DeltaOf(data) = "" THEN rest
                      ELSE [out |-> <<DeltaOf(data)>> \o rest.out, done |-> rest.done]

ProcessChunk(chunk) == ProcessLines(splitlines(chunk))

\* the event lines a backend sends
Ev(c) == SSE_PREFIX \o <<"{", c, "}", NL>>
EvMsg(c) == SSE_PREFIX \o <<"{", "m", c, "}", NL>>
EvEmpty == SSE_PREFIX \o <<"{", "}", NL>>
EvBad == SSE_PREFIX \o <<"{", "a", NL>>
Comment == <<":", " ", "k", NL>>
DoneLine == SSE_PREFIX \o DONE \o <<NL>>

Wires ==
    { Ev("a") \o <<NL>> \o Ev("b") \o <<NL>> \o DoneLine,
      Ev("a") \o Comment \o EvBad \o DoneLine \o Ev("b"),
      EvEmpty \o EvMsg("b"),
      DoneLine }

OpenErrors == {"request_error", "http_status"}
ReadErrors == {"request_error", "timeout"}

CsIdle == [pc |-> "idle", attempt |-> 0, requests |-> 0, pos |-> 0,
           yielded |-> <<>>, err |-> NoErr]

CsStart == [CsIdle EXCEPT !.pc = "open", !.attempt = 1]

\* the except clause of chat_stream: the last attempt breaks out and raises,
\* an earlier one sleeps and goes round the loop again
CsOnError(c, kind) ==
    [c EXCEPT !.err = [attempt |-> c.attempt, kind |-> kind],
              !.pc = IF c.attempt >= 3 THEN "raised" ELSE "sleep"]

\* self._client.stream("POST", ...) and r.raise_for_status()
CsOpen ==
    /\ cs.pc = "open"
    /\ \/ cs' = [cs EXCEPT !.requests = @ + 1, !.pos = 0, !.pc = "read"]
       \/ \E kind \in OpenErrors :
            cs' = CsOnError([cs EXCEPT !.requests = @ + 1], kind)
    /\ UNCHANGED <<budgetVars, pj, wire, tc, ext, turnVars>>

\* one round of `async for chunk in r.aiter_raw()`: the next chunk (any cut of
\* what is left of the wire), the end of the body, or a network error
CsRead ==
    /\ cs.pc = "read"
    /\ \/ \E n \in 1..(Len(wire) - cs.pos) :
            LET r == ProcessChunk(SubSeq(wire, cs.pos + 1, cs.pos + n))
            IN  cs' = [cs EXCEPT !.pos = @ + n,
                                 !.yielded = @ \o r.out,
                                 !.pc = IF r.done THEN "done" ELSE "read"]
       \/ /\ cs.pos = Len(wire)
          /\ cs' = [cs EXCEPT !.pc = "done"]
       \/ \E kind \in ReadErrors : cs' = CsOnError(cs, kind)
    /\ UNCHANGED <<budgetVars, pj, wire, tc, ext, turnVars>>

\* await asyncio.sleep(base + jitter), then the next attempt
CsBackoff ==
    /\ cs.pc = "sleep"
    /\ cs' = [cs EXCEPT !.attempt = @ + 1, !.pc = "open"]
    /\ UNCHANGED <<budgetVars, pj, wire, tc, ext, turnVars>>

\* ---------------------------------------------------------------- tools

\* argument values: a JSON string or a JSON number
StrVal(v) == [t |-> "string", v |-> v]
IntVal == [t |-> "int", v |-> "1"]

\* argument objects (dicts): functions from the supplied keys to their values
EmptyArgs == [k \in {} |-> IntVal]
ArgsUrl == [k \in {"image_url"} |-> StrVal("u")]
ArgsUrlTask == [k \in {"image_url", "task"} |-> IF k = "task" THEN StrVal("ocr") ELSE StrVal("u")]
ArgsBadEnum == [k \in {"image_url", "task"} |-> IF k = "task" THEN StrVal("bogus") ELSE StrVal("u")]
ArgsUnknownKey == [k \in {"image_url", "extra"} |-> StrVal("u")]
ArgsNotString == [k \in {"image_url"} |-> IntVal]

ArgsObjs == {EmptyArgs, ArgsUrl, ArgsUrlTask, ArgsBadEnum, ArgsUnknownKey, ArgsNotString}

\* VisionDescribeTool.parameters_schema
VisionSchema ==
    [required |-> {"image_url"},
     props |-> {"image_url", "task"},
     type |-> [k \in {"image_url", "task"} |-> "string"],
     enum |-> [k \in {"image_url", "task"} |->
                  IF k = "task" THEN {"general", "ocr", "layout"} ELSE {}],
     has_enum |-> {"task"},
     default |-> [k \in {"task"} |-> StrVal("general")]]

\* _validate_args: ok is FALSE where the code raises ValueError
_validate_args(schema, args) ==
    LET bad(k) ==
            \/ k \notin schema.props
            \/ /\ schema.type[k] = "string"
               /\ \/ args[k].t # "string"
                  \/ k \in schema.has_enum /\ args[k].v \notin schema.enum[k]
        ok == /\ schema.required \subseteq DOMAIN args
              /\ \A k \in DOMAIN args : ~bad(k)
        keys == DOMAIN args \cup DOMAIN schema.default
    IN  [ok |-> ok,
         validated |-> IF ok
                       THEN [k \in keys |-> IF k \in DOMAIN args THEN args[k]
                                            ELSE schema.default[k]]
                       ELSE EmptyArgs]

\* a second JSON number
IntVal9 == [t |-> "int", v |-> "9"]

\* a schema with an integer property that declares an enum ([1, 2]) and a
\* string property with an enum and a default
LevelSchema ==
    [required |-> {"level"},
     props |-> {"level", "task"},
     type |-> [k \in {"level", "task"} |-> IF k = "level" THEN "integer" ELSE "string"],
     enum |-> [k \in {"level", "task"} |->
                  IF k = "task" THEN {"general", "ocr", "layout"} ELSE {"1", "2"}],
     has_enum |-> {"level", "task"},
     default |-> [k \in {"task"} |-> StrVal("general")]]

Schemas == {VisionSchema, LevelSchema}

ArgKeys == {"image_url", "task", "level", "extra"}
ArgVals == {StrVal("u"), StrVal("ocr"), IntVal, IntVal9}

\* every argument map over the keys and values above
ArgMaps == UNION {[S -> ArgVals] : S \in SUBSET ArgKeys}

VaIdle == [pc |-> "idle", schema |-> VisionSchema, args |-> EmptyArgs,
           ok |-> FALSE, validated |-> EmptyArgs]

\* _validate_args(schema, args) runs: it returns validated or raises ValueError
VaValidate ==
    /\ va.pc = "call"
    /\ LET r == _validate_args(va.schema, va.args)
       IN  va' = [va EXCEPT !.pc = "done", !.ok = r.ok, !.validated = r.validated]
    /\ UNCHANGED <<budgetVars, clientVars, tc, turnVars, db, rc, tbl, rf, up>>

\* the outcomes of the vision tool's HTTP attempts, in order, up to the first
\* success or the third failure
HttpLogs == {<<"ok">>, <<"fail", "ok">>, <<"fail", "fail", "ok">>,
             <<"fail", "fail", "fail">>}

\* VisionDescribeTool.invoke: "ok" with a description, or "error" where it raises.
\* After the retry loop the code asserts `last_err is None`, and last_err is set
\* by every failed attempt.
VisionInvoke(args, http) ==
    IF ~_validate_args(VisionSchema, args).ok THEN "error"
    ELSE IF http[Len(http)] # "ok" THEN "error"
    ELSE IF \E i \in 1..Len(http) : http[i] = "fail" THEN "error"
    ELSE "ok"

\* list_tools(): the registry
ToolRegistry == {"vision_describe"}

\* the `arguments` of a tool call: a JSON string (that parses to obj or does not
\* parse), a dict, or anything else
ArgForms ==
    {[kind |-> "str", parses |-> TRUE, obj |-> a] : a \in ArgsObjs}
    \cup {[kind |-> "str", parses |-> FALSE, obj |-> EmptyArgs],
          [kind |-> "dict", parses |-> TRUE, obj |-> ArgsUrl],
          [kind |-> "none", parses |-> FALSE, obj |-> EmptyArgs]}

ToolCalls == {[name |-> n, arguments |-> a] :
                n \in {"vision_describe", "web_search"}, a \in ArgForms}

\* args_obj of maybe_call_one_tool
ArgsObjOf(arguments) ==
    IF arguments.kind = "str"
    THEN (IF arguments.parses THEN arguments.obj ELSE EmptyArgs)
    ELSE IF arguments.kind = "dict" THEN arguments.obj
    ELSE EmptyArgs

ToolMsg(name, result) == [role |-> "tool", name |-> name, content |-> result]

\* (mutant) every listed call is executed, each appending its tool message
RECURSIVE CallAll(_, _, _)
CallAll(msgs, tool_calls, http) ==
    IF Len(tool_calls) = 0 THEN [messages |-> msgs, called |-> FALSE, invoked |-> <<>>]
    ELSE LET call == Head(tool_calls)
             args == ArgsObjOf(call.arguments)
             hit == call.name \in ToolRegistry
             rest == CallAll(IF hit
                             THEN msgs \o <<ToolMsg(call.name, VisionInvoke(args, http))>>
                             ELSE msgs,
                             Tail(tool_calls), http)
         IN  [messages |-> rest.messages,
              called |-> hit \/ rest.called,
              invoked |-> (IF hit THEN <<[name |-> call.name, args |-> args]>> ELSE <<>>)
                          \o rest.invoked]

maybe_call_all_tools(msgs, tool_calls, http) == CallAll(msgs, tool_calls, http)

\* (mutant) an unregistered name is answered with an error tool message and
\* the flag set: `if not tool: result = {"error": ...}`
maybe_call_one_tool_answers_unknown(msgs, tool_calls, http) ==
    IF Len(tool_calls) = 0
    THEN [messages |-> msgs, called |-> FALSE, invoked |-> <<>>]
    ELSE LET call == tool_calls[1]
             name == call.name
             args_obj == ArgsObjOf(call.arguments)
         IN  IF name \notin ToolRegistry
             THEN [messages |-> msgs \o <<ToolMsg(name, "error")>>,
                   called |-> TRUE, invoked |-> <<>>]
             ELSE [messages |-> msgs \o <<ToolMsg(name, VisionInvoke(args_obj, http))>>,
                   called |-> TRUE,
                   invoked |-> <<[name |-> name, args |-> args_obj]>>]

\* (mutant) arguments that do not parse end the call: `except Exception: return
\* messages, False`
maybe_call_one_tool_drops_unparsed(msgs, tool_calls, http) ==
    IF Len(tool_calls) = 0
    THEN [messages |-> msgs, called |-> FALSE, invoked |-> <<>>]
    ELSE LET call == tool_calls[1]
             name == call.name
             args_obj == ArgsObjOf(call.arguments)
         IN  IF name \notin ToolRegistry
                \/ (call.arguments.kind = "str" /\ ~call.arguments.parses)
             THEN [messages |-> msgs, called |-> FALSE, invoked |-> <<>>]
             ELSE [messages |-> msgs \o <<ToolMsg(name, VisionInvoke(args_obj, http))>>,
                   called |-> TRUE,
                   invoked |-> <<[name |-> name, args |-> args_obj]>>]

\* maybe_call_one_tool: the returned list, the flag, and the invocations made
maybe_call_one_tool(msgs, tool_calls, http) ==
    IF Len(tool_calls) = 0
    THEN [messages |-> msgs, called |-> FALSE, invoked |-> <<>>]
    ELSE LET call == tool_calls[1]
             name == call.name
             args_obj == ArgsObjOf(call.arguments)
         IN  IF name \notin ToolRegistry
             THEN [messages |-> msgs, called |-> FALSE, invoked |-> <<>>]
             ELSE [messages |-> msgs \o <<ToolMsg(name, VisionInvoke(args_obj, http))>>,
                   called |-> TRUE,
                   invoked |-> <<[name |-> name, args |-> args_obj]>>]

TcIdle == [pc |-> "idle", messages |-> <<>>, tool_calls |-> <<>>, out |-> <<>>,
           called |-> FALSE, invoked |-> <<>>, http |-> <<>>]

ProbeMessages == <<[role |-> "system", name |-> "", content |-> "prompt"],
                   [role |-> "user", name |-> "", content |-> "text"]>>

TcCall ==
    /\ tc.pc = "call"
    /\ \E http \in HttpLogs :
        LET r == maybe_call_one_tool(tc.messages, tc.tool_calls, http)
        IN  tc' = [tc EXCEPT !.pc = "done", !.out = r.messages, !.called = r.called,
                             !.invoked = r.invoked, !.http = http]
    /\ UNCHANGED <<budgetVars, clientVars, ext, turnVars>>

\* ----------------------------------------------------------- summarizer

SummarizeLimit == 500       \* summarizer.summarize: LIMIT = 500
SummaryCap == 1000          \* "Hard cap to 1000 chars"
FallbackKeep == 980         \* convo[:980] + "..."
CapKeep == 997              \* summary[:997] + "..."
EllipsisLen == 3            \* len("...")

\* the fallback of summarize when the backend call raises: the conversation log,
\* cut when it is longer than the cap
FallbackSummary(convo) ==
    IF convo > SummaryCap
    THEN [src |-> "convo", len |-> FallbackKeep + EllipsisLen, ell |-> TRUE]
    ELSE [src |-> "convo", len |-> convo, ell |-> FALSE]

\* the hard cap
CapSummary(sm) ==
    IF sm.len > SummaryCap
    THEN [src |-> sm.src, len |-> CapKeep + EllipsisLen, ell |-> TRUE]
    ELSE sm

\* summarizer.summarize with the backend's outcome: the summary it stores and returns
SummarizeText(msgs, tid, ok, reply) ==
    LET convo == ConvoLen(msgs, FoldRows(msgs, tid, SummarizeLimit), 3)
    IN  CapSummary(IF ok THEN reply ELSE FallbackSummary(convo))

summarize(sums, msgs, tid, ok, reply) ==
    upsert_summary(sums, tid, SummarizeText(msgs, tid, ok, reply))

\* ------------------------------------------------- store: turns' writes

\* Database.insert_message; the new message's id is Len(msgs) + 1
insert_message(msgs, tid, role, content) ==
    Append(msgs, [thread_id |-> tid, role |-> role, content |-> content])

\* Database.insert_response: response_message_id is inserted as NULL (0)
insert_response(resps, tid, input_message_id, status, usage) ==
    Append(resps, [thread_id |-> tid, request_message_id |-> input_message_id,
                   response_message_id |-> 0, status |-> status, usage |-> usage])

\* Database.update_response_output
update_response_output(resps, rid, output_message_id, status) ==
    [resps EXCEPT ![rid].response_message_id = output_message_id,
                  ![rid].status = status]

\* Database.create_thread: a fresh id
NewThread(ths) == Cardinality(ths) + 1

\* (mutant) with neither id given, an existing thread is taken when there is one
resolve_thread_reuses(ths, resps, previous_response_id, explicit_thread_id) ==
    IF explicit_thread_id # 0
    THEN [thread_id |-> explicit_thread_id, threads |-> ths]
    ELSE IF previous_response_id \in 1..Len(resps)
    THEN [thread_id |-> resps[previous_response_id].thread_id, threads |-> ths]
    ELSE IF ths # {}
    THEN [thread_id |-> CHOOSE x \in ths : TRUE, threads |-> ths]
    ELSE [thread_id |-> NewThread(ths), threads |-> ths \cup {NewThread(ths)}]

\* (mutant) the previous response is looked up first: `if previous_response_id:`
\* ahead of `if explicit_thread_id:`
resolve_thread_prefers_previous(ths, resps, previous_response_id, explicit_thread_id) ==
    IF previous_response_id \in 1..Len(resps)
    THEN [thread_id |-> resps[previous_response_id].thread_id, threads |-> ths]
    ELSE IF explicit_thread_id # 0
    THEN [thread_id |-> explicit_thread_id, threads |-> ths]
    ELSE [thread_id |-> NewThread(ths), threads |-> ths \cup {NewThread(ths)}]

\* Database.resolve_thread: the thread id and the table threads afterwards
resolve_thread(ths, resps, previous_response_id, explicit_thread_id) ==
    IF explicit_thread_id # 0
    THEN [thread_id |-> explicit_thread_id, threads |-> ths]
    ELSE IF previous_response_id \in 1..Len(resps)
    THEN [thread_id |-> resps[previous_response_id].thread_id, threads |-> ths]
    ELSE [thread_id |-> NewThread(ths), threads |-> ths \cup {NewThread(ths)}]

\* SELECT COUNT(1) FROM messages WHERE thread_id = ?
CountMessages(msgs, tid) == Len(ThreadIds(msgs, tid))

\* ---------------------------------------------------------------- turns

\* input_text: its content and the name the MEMORY_NAME_RE match captures (-1: no match)
UserTexts ==
    {[content |-> [n |-> 8, pad |-> 1], name |-> -1],
     [content |-> [n |-> 4000, pad |-> 0], name |-> -1],
     [content |-> [n |-> 30, pad |-> 0], name |-> 5]}

DeltaLen == 8       \* characters of one streamed delta of the model

NoReq == [thread_id |-> 0, previous_response_id |-> 0,
          text |-> [content |-> [n |-> 0, pad |-> 0], name |-> -1], store |-> FALSE]

NoUsage == [prompt_tokens |-> 0, completion_tokens |-> 0, total_tokens |-> 0]

\* ResponsePayload of post_responses; response_id 0: nothing returned
NoPayload == [response_id |-> 0, thread_id |-> 0, status |-> "none", usage |-> NoUsage]

\* the error handed to the client: the detail of post_responses' HTTPException
\* or the error frame of ws_respond; response_id 0: the key is absent
NoError == [trace_id |-> FALSE, response_id |-> 0]

TnIdle == [pc |-> "idle", op |-> "none", req |-> NoReq, thread_id |-> 0,
           user_msg_id |-> 0, chat |-> <<>>, llm_calls |-> 0, reply_tool_calls |-> 0,
           deltas |-> 0, events |-> <<>>, out_msg_id |-> 0, resp_id |-> 0,
           result |-> "none", start_id |-> 0, turn |-> 1,
           first |-> [thread_id |-> 0, delivered |-> 0],
           m0 |-> 0, th0 |-> {}, usage |-> NoUsage, payload |-> NoPayload, error |-> NoError,
           failed_at |-> "none", reported_total |-> 0]

\* respond_stream: response_id = str(uuid.uuid4()), an id of no row of table responses
FreshResponseId == 50

\* the requests a client may send in the current state of the store: no thread
\* id, the id of a thread or an id of no thread, each with no previous response
\* id, the id of a stored response or an id of no stored response
Requests ==
    {[thread_id |-> t, previous_response_id |-> p, text |-> x, store |-> st] :
        t \in {0, GhostThread} \cup threads,
        p \in (0..Len(responses)) \cup {FreshResponseId},
        x \in UserTexts,
        st \in BOOLEAN}

IsTurn(t) == t.op \in {"respond", "respond_stream"}

\* the response id a completed turn has handed to its client: respond returns
\* resp_id, respond_stream sends response_id in its start event
DeliveredId(t) == IF t.op = "respond" THEN t.payload.response_id ELSE t.start_id

\* (mutant) the handler sends the error frame and goes on serving the turn
WsExceptGoesOn(t) == [t EXCEPT !.events = Append(@, "error"),
                               !.error = [trace_id |-> TRUE, response_id |-> 0]]

\* ws_respond, `except Exception`: one error frame, then the socket is closed
WsExcept(t) == [t EXCEPT !.events = Append(@, "error"), !.pc = "done",
                         !.result = "error", !.failed_at = t.pc,
                         !.error = [trace_id |-> TRUE, response_id |-> 0]]

\* ws_respond, `except WebSocketDisconnect: return`
WsDisconnected(t) ==
    [t EXCEPT !.pc = "done", !.result = "disconnected",
              !.failed_at = IF t.pc = "start" THEN "send_start"
                            ELSE IF t.pc = "llm" THEN "send_delta" ELSE "send_end"]

\* an exception leaves the service: ws_respond sends an error frame;
\* post_thread_summarize answers 500 "internal error"; post_responses answers 500
\* with a trace id, and with response_id `if resp_id`, its own local, which is
\* assigned only when service.respond returns
Raise(t) ==
    IF t.op = "respond_stream" THEN WsExcept(t)
    ELSE [t EXCEPT !.pc = "done", !.result = "error", !.failed_at = t.pc,
                   !.error = [trace_id |-> t.op = "respond",
                              response_id |-> t.payload.response_id]]

\* a request arrives: POST /responses, a WebSocket /ws/respond, or
\* POST /threads/{id}/summarize
TnBegin ==
    /\ tn.pc = "idle"
    /\ \/ \E op \in {"respond", "respond_stream"}, req \in Requests :
            tn' = [TnIdle EXCEPT !.op = op, !.req = req, !.m0 = Len(messages), !.th0 = threads,
                                 !.pc = IF op = "respond" THEN "resolve" ELSE "ws_recv"]
       \/ \E tid \in threads \cup {GhostThread} :
            tn' = [TnIdle EXCEPT !.op = "summarize", !.thread_id = tid,
                                 !.pc = "summarize"]
    /\ UNCHANGED <<budgetVars, clientVars, tc, ext, threads, responses>>

\* ws_respond: receive_text and json.loads of the first frame
WsReceive ==
    /\ tn.pc = "ws_recv"
    /\ \/ tn' = [tn EXCEPT !.pc = "resolve"]
       \/ tn' = WsExcept(tn)           \* the frame is not JSON
       \/ tn' = WsDisconnected(tn)
    /\ UNCHANGED <<budgetVars, clientVars, tc, ext, threads, responses>>

\* resolve_thread; a database error raises
TnResolve ==
    /\ tn.pc = "resolve"
    /\ \/ LET r == resolve_thread(threads, responses, tn.req.previous_response_id,
                                  tn.req.thread_id)
          IN  /\ threads' = r.threads
              /\ tn' = [tn EXCEPT !.thread_id = r.thread_id, !.pc = "memory"]
       \/ /\ tn.req.thread_id = 0
          /\ tn' = Raise(tn)
          /\ UNCHANGED threads
    /\ UNCHANGED <<budgetVars, clientVars, tc, ext, responses>>

\* _maybe_store_memory: upsert_profile_kv when the text matches; a database
\* error raises
TnMemory ==
    /\ tn.pc = "memory"
    /\ \/ /\ profile' = IF tn.req.text.name >= 0 THEN tn.req.text.name ELSE profile
          /\ tn' = [tn EXCEPT !.pc = "insert_user"]
       \/ /\ tn.req.text.name >= 0
          /\ tn' = Raise(tn)
          /\ UNCHANGED profile
    /\ UNCHANGED <<s, messages, summaries, eb, fold, clientVars, tc, ext, threads, responses>>

\* the user message: respond inserts it when store is set, respond_stream
\* always; then _ensure_budget is entered
TnInsertUser ==
    /\ tn.pc = "insert_user"
    /\ LET stored == tn.op = "respond_stream" \/ tn.req.store
       IN  \/ /\ messages' = IF stored
                             THEN insert_message(messages, tn.thread_id, "user",
                                                 tn.req.text.content)
                             ELSE messages
              /\ tn' = [tn EXCEPT !.user_msg_id = IF stored THEN Len(messages) + 1 ELSE -1,
                                  !.pc = "budget"]
              /\ eb' = [EbIdle EXCEPT !.pc = "build", !.thread_id = tn.thread_id]
           \/ /\ stored
              /\ tn' = Raise(tn)
              /\ UNCHANGED <<messages, eb>>
    /\ UNCHANGED <<s, summaries, profile, fold, clientVars, tc, ext, threads, responses>>

\* _ensure_budget has returned: the user turn is appended to its list; respond
\* goes on to _run_stream_collect, respond_stream to its first yield
TnAfterBudget ==
    /\ tn.pc = "budget"
    /\ eb.pc = "done"
    /\ tn' = [tn EXCEPT !.chat = eb.chat \o <<[role |-> "user",
                                               len |-> ContentLen(tn.req.text.content),
                                               ref |-> -3]>>,
                        !.llm_calls = IF tn.op = "respond" THEN 1 ELSE 0,
                        !.pc = IF tn.op = "respond" THEN "llm" ELSE "start"]
    /\ eb' = EbIdle
    /\ UNCHANGED <<s, storeVars, fold, clientVars, tc, ext, threads, responses>>

\* respond_stream: yield start; ws_respond sends the frame; chat_stream is entered
WsStart ==
    /\ tn.pc = "start"
    /\ \/ tn' = [tn EXCEPT !.events = Append(@, "start"), !.start_id = FreshResponseId,
                           !.llm_calls = 1, !.pc = "llm"]
       \/ tn' = WsDisconnected(tn)
    /\ UNCHANGED <<budgetVars, clientVars, tc, ext, threads, responses>>

\* chat_stream yields a delta; respond_stream yields it on, ws_respond sends it
TnDelta ==
    /\ tn.pc = "llm"
    /\ tn.deltas < MaxDeltas
    /\ \/ tn' = [tn EXCEPT !.deltas = @ + 1,
                           !.events = IF tn.op = "respond_stream"
                                      THEN Append(@, "delta") ELSE @]
       \/ /\ tn.op = "respond_stream"
          /\ tn' = WsDisconnected([tn EXCEPT !.deltas = @ + 1])
    /\ UNCHANGED <<budgetVars, clientVars, tc, ext, threads, responses>>

\* usage: prompt_tokens of the list sent, completion_tokens of the text collected
Usage(chat, text_len) ==
    LET prompt_tokens == estimate_messages_tokens(chat)
        completion_tokens == estimate_tokens(text_len)
    IN  [prompt_tokens |-> prompt_tokens, completion_tokens |-> completion_tokens,
         total_tokens |-> prompt_tokens + completion_tokens]

UsageOf(t) == Usage(t.chat, DeltaLen * t.deltas)

\* the total_tokens a backend may report in the `usage` object of a chunk of its
\* stream; 0: it reports none
ReportedTotals == {0, 7}

\* chat_stream ends normally; the reply it streamed listed 0 or 1 tool calls (of
\* the registered tool), which chat_stream does not read
TnStreamEnd ==
    /\ tn.pc = "llm"
    /\ \E n \in {0, 1}, reported \in ReportedTotals :
        tn' = [tn EXCEPT !.reply_tool_calls = n, !.usage = UsageOf(tn),
                         !.reported_total = reported,
                         !.pc = "insert_assistant"]
    /\ UNCHANGED <<budgetVars, clientVars, tc, ext, threads, responses>>

\* (mutant) the text collected so far is stored as the assistant message before
\* the error is passed on
TnStreamRaiseStoresPartial ==
    /\ tn.pc = "llm"
    /\ tn' = Raise(tn)
    /\ messages' = insert_message(messages, tn.thread_id, "assistant",
                                  [n |-> DeltaLen * tn.deltas, pad |-> 0])
    /\ UNCHANGED <<s, summaries, profile, eb, fold, clientVars, tc, ext, threads, responses>>

\* chat_stream raises the error of its last attempt
TnStreamRaise ==
    /\ tn.pc = "llm"
    /\ tn' = Raise(tn)
    /\ UNCHANGED <<budgetVars, clientVars, tc, ext, threads, responses>>

\* the collected text: respond strips the joined deltas, respond_stream does not
OutContent(t) == [n |-> DeltaLen * t.deltas, pad |-> 0]

\* the assistant message: respond inserts it when store is set, respond_stream always
TnInsertAssistant ==
    /\ tn.pc = "insert_assistant"
    /\ LET stored == tn.op = "respond_stream" \/ tn.req.store
       IN  \/ /\ messages' = IF stored
                             THEN insert_message(messages, tn.thread_id, "assistant",
                                                 OutContent(tn))
                             ELSE messages
              /\ tn' = [tn EXCEPT !.out_msg_id = IF stored THEN Len(messages) + 1 ELSE -1,
                                  !.pc = "insert_response"]
           \/ /\ stored
              /\ tn' = Raise(tn)
              /\ UNCHANGED messages
    /\ UNCHANGED <<s, summaries, profile, eb, fold, clientVars, tc, ext, threads, responses>>

\* insert_response(..., status="completed", ...)
TnInsertResponse ==
    /\ tn.pc = "insert_response"
    /\ \/ /\ responses' = insert_response(responses, tn.thread_id, tn.user_msg_id,
                                          "completed", tn.usage)
          /\ tn' = [tn EXCEPT !.resp_id = Len(responses) + 1,
                              !.pc = IF tn.op = "respond" THEN "update_response"
                                     ELSE "end"]
       \/ /\ tn' = Raise(tn)
          /\ UNCHANGED responses
    /\ UNCHANGED <<budgetVars, clientVars, tc, ext, threads>>

\* respond: update_response_output(resp_id, assistant_msg_id, status="completed")
TnUpdateResponse ==
    /\ tn.pc = "update_response"
    /\ \/ /\ responses' = update_response_output(responses, tn.resp_id, tn.out_msg_id,
                                                 "completed")
          /\ tn' = [tn EXCEPT !.pc = "after_turn"]
       \/ /\ tn' = Raise(tn)
          /\ UNCHANGED responses
    /\ UNCHANGED <<budgetVars, clientVars, tc, ext, threads>>

\* respond: the opportunistic fold inside try/except-pass, then the return
TnAfterTurn ==
    /\ tn.pc = "after_turn"
    /\ IF CountMessages(messages, tn.thread_id) >= s.summarize_after_messages
          /\ tn.req.store
       THEN \E o \in FoldOutcomes(FALSE) :
            /\ summaries' = summarize(summaries, messages, tn.thread_id, o.ok, o.reply)
            /\ fold' = [via |-> "respond", thread_id |-> tn.thread_id,
                        outcome |-> o.outcome, n |-> fold.n + 1]
       ELSE UNCHANGED <<summaries, fold>>
    /\ tn' = [tn EXCEPT !.pc = "done", !.result = "ok",
                        !.payload = [response_id |-> tn.resp_id,
                                     thread_id |-> tn.thread_id,
                                     status |-> "completed", usage |-> tn.usage]]
    /\ UNCHANGED <<s, messages, profile, eb, clientVars, tc, ext, threads, responses>>

\* respond_stream: yield end; ws_respond sends the frame
WsEnd ==
    /\ tn.pc = "end"
    /\ \/ tn' = [tn EXCEPT !.events = Append(@, "end"), !.pc = "done", !.result = "ok"]
       \/ tn' = WsDisconnected(tn)
    /\ UNCHANGED <<budgetVars, clientVars, tc, ext, threads, responses>>

\* POST /threads/{thread_id}/summarize: summarizer.summarize
TnSummarize ==
    /\ tn.pc = "summarize"
    /\ \/ /\ \E o \in FoldOutcomes(FALSE) :
               /\ summaries' = summarize(summaries, messages, tn.thread_id, o.ok, o.reply)
               /\ fold' = [via |-> "summarize", thread_id |-> tn.thread_id,
                           outcome |-> o.outcome, n |-> fold.n + 1]
          /\ tn' = [tn EXCEPT !.pc = "done", !.result = "ok"]
       \/ /\ tn' = Raise(tn)         \* a database error: the endpoint answers 500
          /\ UNCHANGED <<summaries, fold>>
    /\ UNCHANGED <<s, messages, profile, eb, clientVars, tc, ext, threads, responses>>

\* -------------------------------------------------- Database statements

\* delays = [0.01, 0.02, 0.04, 0.08], in milliseconds
delays == <<10, 20, 40, 80>>

\* the callers of _execute_with_retry
DbOps == {"executescript", "execute", "fetch_one", "fetch_all"}

\* what one `await func(*args)` does: it completes (with a row or rows where the
\* statement selects, "norow" where fetchone finds none), or raises
\* OperationalError "database is locked", another OperationalError, or any
\* other exception
FuncResults(op) ==
    IF op = "fetch_one" THEN {"row", "norow"}
    ELSE IF op = "fetch_all" THEN {"rows", "norows"}
    ELSE {"cursor"}

FuncErrors == {"locked", "operational", "exception"}

DbIdle == [pc |-> "idle", op |-> "none", i |-> 0, locked |-> 0, slept |-> 0,
           ret |-> "none", executed |-> FALSE, committed |-> FALSE,
           result |-> "none", value |-> "none", err |-> "none"]

\* execute / executescript / fetch_one / fetch_all is called
DbCall ==
    /\ db.pc = "idle"
    /\ \E op \in DbOps : db' = [DbIdle EXCEPT !.pc = "try", !.op = op, !.i = 1]
    /\ UNCHANGED <<budgetVars, clientVars, tc, turnVars, rc, tbl, rf, va, up>>

\* _execute_with_retry, "database is locked": log, sleep delays[i], continue; when
\* the loop runs out last_err is still None and the function falls off its end,
\* returning None
DbLocked(d) ==
    IF d.i < Len(delays)
    THEN [d EXCEPT !.pc = "try", !.i = @ + 1, !.locked = @ + 1, !.slept = @ + delays[d.i]]
    ELSE [d EXCEPT !.pc = "returned", !.locked = @ + 1, !.slept = @ + delays[d.i],
                   !.ret = "None"]

\* _execute_with_retry: one pass of the loop
DbAttempt ==
    /\ db.pc = "try"
    /\ \/ \E r \in FuncResults(db.op) :
            db' = [db EXCEPT !.pc = "returned", !.ret = r, !.executed = TRUE]
       \/ db' = DbLocked(db)
       \/ \E e \in FuncErrors \ {"locked"} :     \* `raise`, or break and `raise last_err`
            db' = [db EXCEPT !.pc = "done", !.result = "raised", !.err = e]
    /\ UNCHANGED <<budgetVars, clientVars, tc, turnVars, rc, tbl, rf, va, up>>

\* the caller goes on with what _execute_with_retry returned: execute and
\* executescript commit; fetch_one returns `dict(row) if row else None`;
\* fetch_all iterates the rows (a TypeError when it was handed None)
DbAfter ==
    /\ db.pc = "returned"
    /\ db' = IF db.op \in {"execute", "executescript"}
             THEN [db EXCEPT !.pc = "done", !.committed = TRUE, !.result = "returned",
                             !.value = "None"]
             ELSE IF db.op = "fetch_one"
             THEN [db EXCEPT !.pc = "done", !.result = "returned",
                             !.value = IF db.ret = "row" THEN "dict" ELSE "None"]
             ELSE IF db.ret = "None"
             THEN [db EXCEPT !.pc = "done", !.result = "raised", !.err = "TypeError"]
             ELSE [db EXCEPT !.pc = "done", !.result = "returned", !.value = "list"]
    /\ UNCHANGED <<budgetVars, clientVars, tc, turnVars, rc, tbl, rf, va, up>>

\* --------------------------------------------- concurrent turns, ordering

\* _ensure_budget's shrink loop: while used > budget and k > 1
RECURSIVE ShrinkLoop(_, _, _, _, _, _, _)
ShrinkLoop(msgs, sums, prof, tid, k, chat, budget) ==
    IF estimate_messages_tokens(chat) > budget /\ k > 1
    THEN ShrinkLoop(msgs, sums, prof, tid, ShrinkK(k),
                    build_context(msgs, sums, prof, tid, ShrinkK(k)), budget)
    ELSE chat

\* _ensure_budget run against one state of the store: the list it returns and
\* the table summaries it leaves; o is the outcome of the fold's backend call
_ensure_budget(msgs, sums, prof, tid, st, o) ==
    LET chat0 == build_context(msgs, sums, prof, tid, st.max_context_messages)
        budget == _apply_budget(st)
        folds == estimate_messages_tokens(chat0) > budget + st.context_hysteresis_tokens
        sums1 == IF folds THEN _fold_history(sums, msgs, tid, o.ok, o.reply) ELSE sums
        chat1 == IF folds
                 THEN build_context(msgs, sums1, prof, tid, st.max_context_messages)
                 ELSE chat0
    IN  [chat |-> IF estimate_messages_tokens(chat1) > budget
                  THEN ShrinkLoop(msgs, sums1, prof, tid, st.max_context_messages,
                                  chat1, budget)
                  ELSE chat1,
         summaries |-> sums1,
         folds |-> folds]

\* the two clients: both POST /responses with thread_id 1 and store set
Racers == {1, 2}

RaceText(p) == [n |-> 8 * p, pad |-> 0]

RcTurnIdle == [pc |-> "idle", user_msg_id |-> 0, built_at |-> 0, chat |-> <<>>,
               out_msg_id |-> 0, resp_id |-> 0, result |-> "none"]

RcIdle == [p \in Racers |-> RcTurnIdle]

RcRest == <<s, profile, eb, clientVars, tc, threads, tn, db, tbl, rf, va, up>>

\* respond: insert_message(thread, "user", user_text)
RcInsertUser(p) ==
    /\ rc[p].pc = "insert_user"
    /\ messages' = insert_message(messages, 1, "user", RaceText(p))
    /\ rc' = [rc EXCEPT ![p].user_msg_id = Len(messages) + 1, ![p].pc = "budget"]
    /\ UNCHANGED <<RcRest, summaries, responses, fold>>

\* respond: chat = _ensure_budget(...); chat.append(user turn)
RcBudget(p) ==
    /\ rc[p].pc = "budget"
    /\ \E o \in FoldOutcomes(ConvoLen(messages, FoldRows(messages, 1, FoldLimit), 2) = 0) :
        LET r == _ensure_budget(messages, summaries, profile, 1, s, o)
        IN  /\ summaries' = r.summaries
            /\ fold' = IF r.folds
                       THEN [via |-> "_fold_history", thread_id |-> 1,
                             outcome |-> o.outcome, n |-> fold.n + 1]
                       ELSE fold
            /\ rc' = [rc EXCEPT ![p].chat = r.chat \o <<[role |-> "user",
                                                         len |-> ContentLen(RaceText(p)),
                                                         ref |-> -3]>>,
                                ![p].built_at = Len(messages),
                                ![p].pc = "llm"]
    /\ UNCHANGED <<RcRest, messages, responses>>

\* respond: _run_stream_collect returns the text, or chat_stream raises
RcLlm(p) ==
    /\ rc[p].pc = "llm"
    /\ \/ rc' = [rc EXCEPT ![p].pc = "insert_assistant"]
       \/ rc' = [rc EXCEPT ![p].pc = "done", ![p].result = "error"]
    /\ UNCHANGED <<RcRest, messages, summaries, responses, fold>>

\* respond: insert_message(thread, "assistant", text)
RcInsertAssistant(p) ==
    /\ rc[p].pc = "insert_assistant"
    /\ messages' = insert_message(messages, 1, "assistant", [n |-> DeltaLen, pad |-> 0])
    /\ rc' = [rc EXCEPT ![p].out_msg_id = Len(messages) + 1, ![p].pc = "insert_response"]
    /\ UNCHANGED <<RcRest, summaries, responses, fold>>

\* respond: insert_response(..., status="completed")
RcInsertResponse(p) ==
    /\ rc[p].pc = "insert_response"
    /\ responses' = insert_response(responses, 1, rc[p].user_msg_id, "completed",
                                    Usage(rc[p].chat, DeltaLen))
    /\ rc' = [rc EXCEPT ![p].resp_id = Len(responses) + 1, ![p].pc = "update_response"]
    /\ UNCHANGED <<RcRest, messages, summaries, fold>>

\* respond: update_response_output(resp_id, assistant_msg_id, "completed")
RcUpdateResponse(p) ==
    /\ rc[p].pc = "update_response"
    /\ responses' = update_response_output(responses, rc[p].resp_id, rc[p].out_msg_id,
                                           "completed")
    /\ rc' = [rc EXCEPT ![p].pc = "after_turn"]
    /\ UNCHANGED <<RcRest, messages, summaries, fold>>

\* respond: the opportunistic summarize, then the return
RcAfterTurn(p) ==
    /\ rc[p].pc = "after_turn"
    /\ IF CountMessages(messages, 1) >= s.summarize_after_messages
       THEN \E o \in FoldOutcomes(FALSE) :
            /\ summaries' = summarize(summaries, messages, 1, o.ok, o.reply)
            /\ fold' = [via |-> "respond", thread_id |-> 1,
                        outcome |-> o.outcome, n |-> fold.n + 1]
       ELSE UNCHANGED <<summaries, fold>>
    /\ rc' = [rc EXCEPT ![p].pc = "done", ![p].result = "ok"]
    /\ UNCHANGED <<RcRest, messages, responses>>

\* table messages with its column created_at = time.time() of the insert; clock
\* is the last value time.time() returned (a later call returns the same value
\* or a greater one)
TblIdle == [pc |-> "idle", rows |-> <<>>, clock |-> 0, thread_id |-> 0, limit |-> 0,
            read |-> <<>>]

\* ids of the rows of a thread, in insertion order
TblThread(rows, tid) ==
    SelectSeq([i \in 1..Len(rows) |-> i], LAMBDA i : rows[i].thread_id = tid)

\* SELECT ... WHERE thread_id = ? ORDER BY created_at DESC LIMIT ?: every answer
\* the statement allows; rows with equal created_at come in no particular order,
\* the statement naming no second sort key
OrderedReads(rows, tid, limit) ==
    LET ids == TblThread(rows, tid)
        n == Len(ids)
        sorted == {q \in [1..n -> 1..n] :
                     /\ \A i \in 1..n, j \in 1..n : i # j => q[i] # q[j]
                     /\ \A i \in 1..n, j \in 1..n :
                           i < j => rows[ids[q[i]]].created_at >= rows[ids[q[j]]].created_at}
    IN  {SubSeq([i \in 1..n |-> ids[q[i]]], 1, Min(limit, n)) : q \in sorted}

\* Database.insert_message: one more row, stamped with time.time()
TblInsert ==
    /\ tbl.pc = "insert"
    /\ Len(tbl.rows) < MaxRows
    /\ \E tid \in 1..MaxThreads, now \in {tbl.clock, tbl.clock + 1} :
        tbl' = [tbl EXCEPT !.rows = Append(@, [thread_id |-> tid, created_at |-> now]),
                           !.clock = now]
    /\ UNCHANGED <<budgetVars, clientVars, tc, turnVars, db, rc, rf, va, up>>

\* Database.get_thread_messages(thread 1, limit) with limit >= the thread's rows
TblRead ==
    /\ tbl.pc = "insert"
    /\ \E limit \in Len(TblThread(tbl.rows, 1))..MaxRows :
       \E r \in OrderedReads(tbl.rows, 1, limit) :
        tbl' = [tbl EXCEPT !.pc = "done", !.thread_id = 1, !.limit = limit, !.read = r]
    /\ UNCHANGED <<budgetVars, clientVars, tc, turnVars, db, rc, rf, va, up>>

\* ------------------------------------------------------- repeated folds

\* len("Conversation log:\n")
LogPrefixLen == 18

NoInput == [system |-> "none", rows |-> <<>>, len |-> 0]

\* the user message _fold_history sends: convo_text, made of the thread's rows
FoldInput(msgs, tid) ==
    LET rows == FoldRows(msgs, tid, FoldLimit)
    IN  [system |-> "fold", rows |-> rows, len |-> ConvoLen(msgs, rows, 2)]

\* the user message summarize sends: "Conversation log:\n" + convo
SummarizeInput(msgs, tid) ==
    LET rows == FoldRows(msgs, tid, SummarizeLimit)
    IN  [system |-> "minutes", rows |-> rows,
         len |-> LogPrefixLen + ConvoLen(msgs, rows, 3)]

RfIdle == [pc |-> "idle", log |-> <<>>]

\* _fold_history(thread 1) is run (by _ensure_budget) on the thread as it is
RfFoldHistory ==
    /\ rf.pc = "fold"
    /\ Len(rf.log) < MaxRefolds
    /\ \E o \in FoldOutcomes(ConvoLen(messages, FoldRows(messages, 1, FoldLimit), 2) = 0) :
        /\ summaries' = _fold_history(summaries, messages, 1, o.ok, o.reply)
        /\ rf' = [rf EXCEPT !.log = Append(@,
                    [via |-> "_fold_history",
                     input |-> IF o.outcome = "empty" THEN NoInput
                               ELSE FoldInput(messages, 1),
                     outcome |-> o.outcome,
                     stored |-> summaries'[1]])]
    /\ UNCHANGED <<s, messages, profile, eb, fold, clientVars, tc, turnVars, db, rc, tbl, va, up>>

\* summarizer.summarize(thread 1) is run on the thread as it is
RfSummarize ==
    /\ rf.pc = "fold"
    /\ Len(rf.log) < MaxRefolds
    /\ \E o \in FoldOutcomes(FALSE) :
        /\ summaries' = summarize(summaries, messages, 1, o.ok, o.reply)
        /\ rf' = [rf EXCEPT !.log = Append(@,
                    [via |-> "summarize",
                     input |-> SummarizeInput(messages, 1),
                     outcome |-> o.outcome,
                     stored |-> summaries'[1]])]
    /\ UNCHANGED <<s, messages, profile, eb, fold, clientVars, tc, turnVars, db, rc, tbl, va, up>>

\* ------------------------------------------ concurrent upsert_profile_kv

\* the names the two calls store, by their lengths
UpValues == {3, 5, 8}

UpTask(v) == [pc |-> "select", value |-> v, row |-> FALSE]

\* tasks: the two calls; finished: the calls in the order they ended;
\* had_row: a row of the key existed when they began
UpIdle == [tasks |-> <<>>, finished |-> <<>>, had_row |-> FALSE]

\* row = await self.fetch_one("SELECT id FROM profiles WHERE name=?", [key])
UpSelect ==
    \E p \in DOMAIN up.tasks :
        /\ up.tasks[p].pc = "select"
        /\ up' = [up EXCEPT !.tasks[p].row = (profile # -1), !.tasks[p].pc = "write"]
        /\ UNCHANGED <<budgetVars, clientVars, tc, turnVars, db, rc, tbl, rf, va>>

\* `if row:` UPDATE ... WHERE name=?; `else:` INSERT, which the UNIQUE
\* constraint on profiles.name rejects with an IntegrityError when a row of the
\* key exists; execute re-raises it
UpWrite ==
    \E p \in DOMAIN up.tasks :
        /\ up.tasks[p].pc = "write"
        /\ IF up.tasks[p].row
           THEN /\ profile' = IF profile # -1 THEN up.tasks[p].value ELSE profile
                /\ up' = [up EXCEPT !.tasks[p].pc = "done", !.finished = Append(@, p)]
           ELSE IF profile = -1
           THEN /\ profile' = up.tasks[p].value
                /\ up' = [up EXCEPT !.tasks[p].pc = "done", !.finished = Append(@, p)]
           ELSE /\ profile' = profile
                /\ up' = [up EXCEPT !.tasks[p].pc = "raised", !.finished = Append(@, p)]
        /\ UNCHANGED <<s, messages, summaries, eb, fold, clientVars, tc, turnVars,
                       db, rc, tbl, rf, va>>

ExtIdle ==
    /\ db = DbIdle /\ rc = RcIdle /\ tbl = TblIdle /\ rf = RfIdle /\ va = VaIdle
    /\ up = UpIdle

\* ------------------------------------------------------------ SpecBudget

Contents == {[n |-> 0, pad |-> 0], [n |-> 8, pad |-> 1], [n |-> 4000, pad |-> 0]}

StoredMsgKinds ==
    {[thread_id |-> 1, role |-> "user", content |-> c] : c \in Contents}
    \cup {[thread_id |-> 1, role |-> "tool", content |-> [n |-> 8, pad |-> 1]]}

RECURSIVE SeqsUpTo(_, _)
SeqsUpTo(S, n) ==
    IF n = 0 THEN {<<>>}
    ELSE LET shorter == SeqsUpTo(S, n - 1)
         IN  shorter \cup {Append(q, x) : q \in {r \in shorter : Len(r) = n - 1}, x \in S}

BudgetSettings ==
    {[context_window_tokens |-> w, ratio_pct |-> r, context_hysteresis_tokens |-> h,
      max_context_messages |-> k, summarize_after_messages |-> 100] :
        w \in {1024}, r \in {10, 60, 90}, h \in {0, 1024}, k \in {1, 2, 3, 20, 90}}

StoredSummaries ==
    {NoSummary, [src |-> "old", len |-> 40, ell |-> FALSE],
     [src |-> "old", len |-> 4000, ell |-> FALSE]}

ClientsIdle == pj = PjIdle /\ wire = <<>> /\ cs = CsIdle

ToolIdle == tc = TcIdle

NoFold == [via |-> "none", thread_id |-> 0, outcome |-> "none", n |-> 0]

TurnIdle == threads = {} /\ responses = <<>> /\ tn = TnIdle

BudgetIdle ==
    /\ fold = NoFold
    /\ s = [context_window_tokens |-> 1024, ratio_pct |-> 60,
            context_hysteresis_tokens |-> 1024, max_context_messages |-> 20,
            summarize_after_messages |-> 100]
    /\ messages = <<>>
    /\ summaries = [t \in Threads |-> NoSummary]
    /\ profile = -1
    /\ eb = EbIdle

InitBudget ==
    /\ s \in BudgetSettings
    /\ messages \in SeqsUpTo(StoredMsgKinds, MaxMsgs)
    /\ \E sm \in StoredSummaries : summaries = [t \in Threads |-> IF t = 1 THEN sm ELSE NoSummary]
    /\ profile \in {-1, 5}
    /\ eb = [EbIdle EXCEPT !.pc = "build"]
    /\ fold = NoFold
    /\ ClientsIdle
    /\ ToolIdle
    /\ ExtIdle
    /\ TurnIdle

NextBudget == DbgContext \/ EbBuild \/ EbFold \/ EbCheck \/ EbShrink

SpecBudget == InitBudget /\ [][NextBudget]_vars

\* C1: when _ensure_budget returns, the estimate of the returned list is within
\* the budget, or the last K used to build the list is 1.
C1_BudgetOrFloor ==
    eb.pc = "done" =>
        \/ estimate_messages_tokens(eb.chat) <= _apply_budget(s)
        \/ eb.k = 1

\* a run that shrank from a larger K down to the floor and is still over budget
C1_Witness ==
    /\ eb.pc = "done"
    /\ s.max_context_messages > 1
    /\ eb.k = 1
    /\ estimate_messages_tokens(eb.chat) > _apply_budget(s)
\* C13: when the estimate of the default-K context is above budget + hysteresis,
\* _ensure_budget folds exactly once, and the context it goes on with is
\* assembled after that fold; when the estimate is at most budget + hysteresis
\* (the band above the budget included) it does not fold.
C13_OneFoldBeforeRebuild ==
    eb.pc \in {"check", "shrink", "done"} =>
        /\ eb.folds = IF eb.u0 > eb.budget + s.context_hysteresis_tokens THEN 1 ELSE 0
        /\ fold.n = eb.folds
        /\ eb.pc = "check" =>
              eb.chat = build_context(messages, summaries, profile, eb.thread_id,
                                      s.max_context_messages)

\* a call that folded, with the new summary in the context it returns
C13_Witness ==
    /\ eb.pc = "done"
    /\ eb.folds = 1
    /\ fold.outcome = "ok"
    /\ eb.u0 > eb.budget + s.context_hysteresis_tokens
    /\ \E i \in 1..Len(eb.chat) : eb.chat[i].ref = -2

\* C14: for an over-budget thread the estimate of the context _ensure_budget
\* returns is at most the estimate computed before the fold, whatever summary
\* the backend returned.
C14_FinalUsedNotAbovePreFold ==
    (eb.pc = "done" /\ eb.u0 > eb.budget + s.context_hysteresis_tokens)
        => eb.used <= eb.u0

\* C28: the shrink loop of _ensure_budget terminates for every starting K >= 1:
\* an iteration runs only while used > budget and K > 1 and replaces K by
\* max(1, floor(0.7 * K)), which is smaller than K; the loop is left, without an
\* error, as soon as used <= budget or K = 1.
C28_ShrinkTerminates ==
    [][/\ (eb.pc = "shrink" /\ eb'.pc = "shrink") =>
            /\ eb.used > eb.budget /\ eb.k > 1
            /\ eb'.k = Max(1, (7 * eb.k) \div 10)
            /\ eb'.k < eb.k
       /\ (eb.pc = "shrink" /\ eb'.pc # "shrink") =>
            /\ eb'.pc = "done"
            /\ eb.used <= eb.budget \/ eb.k = 1
            /\ eb'.k = eb.k /\ eb'.chat = eb.chat]_vars

\* C29: the list build_context returns is, in this order: the system prompt; one
\* fact line iff a user.name Fact exists; one summary line iff the thread has a
\* Summary; then the min(K, n) most recent of the thread's n stored messages,
\* oldest first; and nothing else.
C29_ContextLayout ==
    eb.pc \in {"check", "shrink", "done"} =>
        LET ids == ThreadIds(messages, eb.thread_id)
            n == Len(ids)
            m == Min(eb.k, n)
            fact == profile # -1
            summ == summaries[eb.thread_id].src # "none"
            head == 1 + (IF fact THEN 1 ELSE 0) + (IF summ THEN 1 ELSE 0)
        IN  /\ Len(eb.chat) = head + m
            /\ eb.chat[1] = SystemMsg
            /\ fact => eb.chat[2].ref = -1
            /\ summ => eb.chat[head].ref = -2
            /\ \A j \in 1..head : eb.chat[j].role = "system"
            /\ \A j \in 1..m :
                  /\ eb.chat[head + j].ref = ids[n - m + j]
                  /\ eb.chat[head + j].role = messages[ids[n - m + j]].role
                  /\ eb.chat[head + j].len = ContentLen(messages[ids[n - m + j]].content)

\* C36: the k_last_used and estimated_used that debug_context reports for a
\* stored thread state are the final K and the final estimate that
\* _ensure_budget reaches when it runs on that state.
C36_DebugMatchesBudget ==
    (eb.pc = "done" /\ eb.dbg.ran) =>
        /\ eb.dbg.k_last_used = eb.k
        /\ eb.dbg.estimated_used = eb.used

\* the two agree whenever the run of _ensure_budget has stored no Summary
C36_DebugMatchesWithoutFold ==
    (eb.pc = "done" /\ eb.dbg.ran /\ fold.outcome # "ok") =>
        /\ eb.dbg.k_last_used = eb.k
        /\ eb.dbg.estimated_used = eb.used
        /\ eb.dbg.budget_tokens = eb.budget

\* debug_context reported K = 1 for a state that _ensure_budget, after its
\* fold, sends whole
C36_DebugDiffers ==
    /\ eb.pc = "done" /\ eb.dbg.ran
    /\ fold.outcome = "ok"
    /\ eb.dbg.k_last_used < eb.k

\* -------------------------------------------------------------- SpecChat

InitChat ==
    /\ BudgetIdle
    /\ ToolIdle
    /\ ExtIdle
    /\ TurnIdle
    /\ wire = <<>> /\ cs = CsIdle
    /\ pj \in {PjStart(c) : c \in Clients}

NextChat == PjAttempt \/ PjBackoff \/ PjChat

SpecChat == InitChat /\ [][NextChat]_vars

\* C3: a non-streaming chat call makes at most 3 attempts and none after a
\* success; two caught failures and then a success return the success; three
\* failures raise the error of the third.
C3_ChatRetries ==
    /\ Len(pj.log) <= 3
    /\ \A i \in 1..(Len(pj.log) - 1) : pj.log[i] # "ok"
    /\ (Len(pj.log) = 3 /\ pj.log[1] \in HttpErrors /\ pj.log[2] \in HttpErrors
            /\ pj.log[3] = "ok")
        => (pj.pc = "returned" /\ pj.result = 3)
    /\ (Len(pj.log) = 3 /\ \A i \in 1..3 : pj.log[i] # "ok")
        => (pj.pc = "raised" /\ pj.err = [attempt |-> 3, kind |-> pj.log[3]])

\* the third attempt succeeds after two different failures
C3_Witness ==
    /\ pj.pc = "returned"
    /\ pj.log = <<"timeout", "http_status", "ok">>

\* C25: between failed attempt n and attempt n+1 (n = 1, 2) of a chat call the
\* client waits at least base * 2^(n-1), base being 250 ms in llm_client and
\* 500 ms in lm_client; a call that succeeds on attempt 3 has waited at least
\* 3 * base in all; no wait follows the last failed attempt.
C25_BackoffWaits ==
    [][LET base == IF pj.client = "llm_client" THEN 250 ELSE 500
       IN  /\ (pj'.attempt = pj.attempt + 1) =>
                /\ pj.log[pj.attempt] \in HttpErrors
                /\ pj.attempt = 1 => pj'.waited - pj.waited >= base
                /\ pj.attempt = 2 => pj'.waited - pj.waited >= 2 * base
           /\ (pj'.pc = "returned" /\ pj'.result = 3) => pj'.waited >= 3 * base
           /\ (pj.attempt = 3) => (pj'.waited = pj.waited /\ pj'.pc # "sleep")
           /\ (pj'.attempt = pj.attempt) => pj'.waited = pj.waited]_vars

\* a call of llm_client that succeeded on its third attempt after the two
\* shortest waits the jitter allows
C25_Witness ==
    /\ pj.pc = "returned"
    /\ pj.client = "llm_client"
    /\ pj.result = 3
    /\ pj.waited = 750

\* C35: when the reply to chat has no usage object, the usage chat returns is
\* the token estimate of the request messages and of the reply text, not zero.
C35_UsageEstimatedWhenOmitted ==
    (pj.chat = "returned" /\ pj.body.usage = NoUsageObj) =>
        /\ pj.usage.prompt_tokens = estimate_messages_tokens(ChatRequest)
        /\ pj.usage.completion_tokens = estimate_tokens(pj.body.text_len)
        /\ pj.usage.total_tokens = pj.usage.prompt_tokens + pj.usage.completion_tokens

\* what chat returns: the counts the reply reports, zero for a count it does not
\* report, and the sum of the two for a total it does not report.
C35_UsageAsReported ==
    pj.chat = "returned" =>
        /\ pj.usage.prompt_tokens = Get(pj.body.usage, "prompt_tokens", 0)
        /\ pj.usage.completion_tokens = Get(pj.body.usage, "completion_tokens", 0)
        /\ pj.usage.total_tokens =
               Get(pj.body.usage, "total_tokens",
                   pj.usage.prompt_tokens + pj.usage.completion_tokens)

\* a reply of 8 characters with no usage object, returned with usage zero
C35_ZeroUsage ==
    /\ pj.chat = "returned"
    /\ pj.body = [text_len |-> 8, usage |-> NoUsageObj]
    /\ pj.usage = [prompt_tokens |-> 0, completion_tokens |-> 0, total_tokens |-> 0]

\* ------------------------------------------------------------ SpecStream

InitStream ==
    /\ BudgetIdle
    /\ ToolIdle
    /\ ExtIdle
    /\ TurnIdle
    /\ pj = PjIdle
    /\ wire \in Wires
    /\ cs = CsStart

NextStream == CsOpen \/ CsRead \/ CsBackoff

SpecStream == InitStream /\ [][NextStream]_vars

\* C2: once a delta of the call has been yielded, no new HTTP request is started
\* (so no delta is yielded twice and the error ends the generator).
C2_NoRequestAfterDelta ==
    [][Len(cs.yielded) > 0 => cs'.requests = cs.requests]_vars

\* C4: the deltas of a call that ends normally on its first request are those of
\* the byte stream, however it was cut into chunks.
C4_ChunkingInvariant ==
    (cs.pc = "done" /\ cs.attempt = 1) => cs.yielded = ProcessChunk(wire).out

\* the last byte of the first `data: [DONE]` of the byte stream, 0 when the
\* stream holds no sentinel
DoneEnd(w) ==
    LET sentinel == SSE_PREFIX \o DONE
        at(i) == i + Len(sentinel) - 1 <= Len(w)
                 /\ SubSeq(w, i, i + Len(sentinel) - 1) = sentinel
    IN  IF \E i \in 1..Len(w) : at(i)
        THEN (CHOOSE i \in 1..Len(w) : at(i) /\ \A j \in 1..(i - 1) : ~at(j))
             + Len(sentinel) - 1
        ELSE 0

\* C32: chat_stream ends normally at the [DONE] sentinel and yields no delta
\* from an event behind it; a line without the `data: ` prefix or with a payload
\* that is not JSON yields nothing and neither ends nor fails the stream. Of a
\* first request that met no error: once the sentinel has been read the call is
\* over, with no more deltas than the events before the sentinel hold.
C32_StopsAtDone ==
    (cs.attempt = 1 /\ cs.err = NoErr /\ DoneEnd(wire) # 0 /\ cs.pos >= DoneEnd(wire)) =>
        /\ cs.pc = "done"
        /\ Len(cs.yielded) <= Len(ProcessChunk(SubSeq(wire, 1, DoneEnd(wire))).out)


\* the sentinel arrived cut in two and the event behind it was yielded
C32_DeltaBehindDone ==
    /\ cs.attempt = 1 /\ cs.err = NoErr /\ cs.pc = "done"
    /\ wire = Ev("a") \o Comment \o EvBad \o DoneLine \o Ev("b")
    /\ cs.yielded = <<"a", "b">>

\* -------------------------------------------------------------- SpecTool

InitTool ==
    /\ BudgetIdle
    /\ ClientsIdle
    /\ TurnIdle
    /\ \E calls \in SeqsUpTo(ToolCalls, MaxCalls) :
        tc = [TcIdle EXCEPT !.pc = "call", !.messages = ProbeMessages,
                            !.tool_calls = calls]
    /\ ExtIdle

NextTool == TcCall

SpecTool == InitTool /\ [][NextTool]_vars

\* C6: whatever the reply lists, maybe_call_one_tool invokes at most one tool,
\* the first one listed, and appends at most one tool message.
C6_SingleHop ==
    tc.pc = "done" =>
        /\ Len(tc.invoked) <= 1
        /\ Len(tc.invoked) = 1 =>
              /\ Len(tc.tool_calls) >= 1
              /\ tc.invoked[1] = [name |-> tc.tool_calls[1].name,
                                  args |-> ArgsObjOf(tc.tool_calls[1].arguments)]
        /\ Len(tc.out) <= Len(tc.messages) + 1
        /\ SubSeq(tc.out, 1, Len(tc.messages)) = tc.messages
        /\ Cardinality({i \in 1..Len(tc.out) : tc.out[i].role = "tool"}) <= 1

\* a reply listing two calls of the registered tool, with different arguments
C6_Witness ==
    /\ tc.pc = "done"
    /\ Len(tc.tool_calls) = 2
    /\ tc.tool_calls[1].name = "vision_describe"
    /\ tc.tool_calls[2].name = "vision_describe"
    /\ tc.tool_calls[1].arguments # tc.tool_calls[2].arguments
    /\ Len(tc.invoked) = 1
    /\ tc.called
\* C23: when the first call of the reply names a tool that is not in the
\* registry, maybe_call_one_tool returns the message list unchanged and the
\* flag false: no tool is invoked and no tool message is appended, whatever the
\* arguments and whatever other calls the reply lists.
C23_UnknownToolNoCall ==
    (tc.pc = "done" /\ Len(tc.tool_calls) >= 1
        /\ tc.tool_calls[1].name \notin ToolRegistry)
    => /\ tc.out = tc.messages
       /\ ~tc.called
       /\ tc.invoked = <<>>

\* an unregistered first call with well-formed arguments, followed by a call of
\* the registered tool
C23_Witness ==
    /\ tc.pc = "done"
    /\ Len(tc.tool_calls) = 2
    /\ tc.tool_calls[1].name = "web_search"
    /\ tc.tool_calls[1].arguments.obj = ArgsUrl
    /\ tc.tool_calls[2].name = "vision_describe"
    /\ tc.out = ProbeMessages
    /\ ~tc.called

\* the first call of the reply carries an arguments string that is not JSON
UnparsedFirst ==
    /\ Len(tc.tool_calls) >= 1
    /\ tc.tool_calls[1].arguments.kind = "str"
    /\ ~tc.tool_calls[1].arguments.parses

\* the call was made with empty arguments and exactly one tool message, holding
\* the error object (the tool has a required parameter), was appended
OneErrorToolMsg ==
    /\ tc.called
    /\ tc.invoked = <<[name |-> tc.tool_calls[1].name, args |-> EmptyArgs]>>
    /\ Len(tc.out) = Len(tc.messages) + 1
    /\ SubSeq(tc.out, 1, Len(tc.messages)) = tc.messages
    /\ tc.out[Len(tc.out)] = ToolMsg(tc.tool_calls[1].name, "error")

\* C31: when the arguments string of the tool call is not parseable JSON,
\* maybe_call_one_tool treats the arguments as empty, does not raise, and
\* returns the list with exactly one tool message appended, an error object.
C31_UnparsedArgsOneToolMsg ==
    (tc.pc = "done" /\ UnparsedFirst) => OneErrorToolMsg

\* C31 (amended): the same, for a call that names a registered tool; for an
\* unregistered name the list is returned unchanged and the flag is false.
C31_UnparsedArgsAmended ==
    (tc.pc = "done" /\ UnparsedFirst) =>
        IF tc.tool_calls[1].name \in ToolRegistry
        THEN OneErrorToolMsg
        ELSE tc.out = tc.messages /\ ~tc.called /\ tc.invoked = <<>>

\* a call of the registered tool with an unparseable arguments string, answered
\* with the error tool message although the HTTP call would have succeeded
C31_Witness ==
    /\ tc.pc = "done"
    /\ UnparsedFirst
    /\ tc.tool_calls[1].name = "vision_describe"
    /\ tc.http = <<"ok">>
    /\ tc.out = ProbeMessages \o <<ToolMsg("vision_describe", "error")>>

\* the first call is of the vision tool with arguments that pass validation
ValidVisionCall ==
    /\ tc.pc = "done"
    /\ Len(tc.tool_calls) >= 1
    /\ tc.tool_calls[1].name = "vision_describe"
    /\ _validate_args(VisionSchema, ArgsObjOf(tc.tool_calls[1].arguments)).ok

\* C39: the HTTP call of the vision tool succeeds whenever one of its up to 3
\* attempts succeeds: after one or two failed attempts and a success, invoke
\* returns the parsed description and no error.
C39_LateSuccessReturns ==
    (ValidVisionCall /\ tc.http[Len(tc.http)] = "ok") =>
        tc.out[Len(tc.out)] = ToolMsg("vision_describe", "ok")

\* the description is returned when the first attempt succeeds
C39_FirstSuccessReturns ==
    (ValidVisionCall /\ tc.http = <<"ok">>) =>
        tc.out[Len(tc.out)] = ToolMsg("vision_describe", "ok")

\* the second attempt succeeded and the tool message holds an error
C39_LateSuccessIsError ==
    /\ ValidVisionCall
    /\ tc.http = <<"fail", "ok">>
    /\ tc.out = ProbeMessages \o <<ToolMsg("vision_describe", "error")>>

\* -------------------------------------------------------------- SpecArgs

InitArgs ==
    /\ BudgetIdle
    /\ ClientsIdle
    /\ ToolIdle
    /\ TurnIdle
    /\ db = DbIdle
    /\ rc = RcIdle
    /\ tbl = TblIdle
    /\ rf = RfIdle
    /\ \E schema \in Schemas, args \in ArgMaps :
        va = [VaIdle EXCEPT !.pc = "call", !.schema = schema, !.args = args]
    /\ up = UpIdle

NextArgs == VaValidate

SpecArgs == InitArgs /\ [][NextArgs]_vars

\* C30: _validate_args accepts an argument map iff every required name is
\* present, every supplied key is declared in properties, and every supplied
\* value whose property declares an enum is a member of it, whatever the type
\* of the property; the result is then the supplied arguments plus the default
\* of every absent property that declares one.
C30_ValidateArgs ==
    va.pc = "done" =>
        LET sc == va.schema
            args == va.args
            member(k) == /\ args[k].t = (IF sc.type[k] = "string" THEN "string" ELSE "int")
                         /\ args[k].v \in sc.enum[k]
            accept == /\ sc.required \subseteq DOMAIN args
                      /\ DOMAIN args \subseteq sc.props
                      /\ \A k \in DOMAIN args \cap sc.has_enum : member(k)
        IN  /\ va.ok <=> accept
            /\ va.ok =>
                  /\ DOMAIN va.validated = DOMAIN args \cup DOMAIN sc.default
                  /\ \A k \in DOMAIN va.validated :
                        va.validated[k] = IF k \in DOMAIN args THEN args[k]
                                          ELSE sc.default[k]

\* ------------------------------------------------------------ SpecUpsert

\* two calls have begun, on a table with no row of the key or with one
InitUpsert ==
    /\ fold = NoFold
    /\ s = [context_window_tokens |-> 1024, ratio_pct |-> 60,
            context_hysteresis_tokens |-> 1024, max_context_messages |-> 20,
            summarize_after_messages |-> 100]
    /\ messages = <<>>
    /\ summaries = [t \in Threads |-> NoSummary]
    /\ eb = EbIdle
    /\ ClientsIdle
    /\ ToolIdle
    /\ TurnIdle
    /\ db = DbIdle /\ rc = RcIdle /\ tbl = TblIdle /\ rf = RfIdle /\ va = VaIdle
    /\ profile \in {-1, 7}
    /\ \E v \in UpValues, w \in UpValues :
        up = [tasks |-> <<UpTask(v), UpTask(w)>>, finished |-> <<>>,
              had_row |-> (profile # -1)]

NextUpsert == UpSelect \/ UpWrite

SpecUpsert == InitUpsert /\ [][NextUpsert]_vars

\* C40: when two turns concurrently upsert the same Fact key and no Fact of that
\* key exists yet, both upserts complete without error and there is one Fact of
\* the key afterwards, with the value of the upsert that finished last.
C40_ConcurrentUpsert ==
    (~up.had_row /\ Len(up.finished) = 2) =>
        /\ \A p \in DOMAIN up.tasks : up.tasks[p].pc = "done"
        /\ profile = up.tasks[up.finished[2]].value

\* a call raises exactly when both calls read no row of the key; when none
\* raises, the Fact holds the value of the call that finished last
C40_HoldsWithoutRace ==
    Len(up.finished) = 2 =>
        /\ (\E p \in DOMAIN up.tasks : up.tasks[p].pc = "raised")
               <=> (\A p \in DOMAIN up.tasks : ~up.tasks[p].row)
        /\ (\A p \in DOMAIN up.tasks : up.tasks[p].pc = "done")
               => profile = up.tasks[up.finished[2]].value

\* both calls read no row, the first inserted, the second was rejected and the
\* Fact holds the value of the first
C40_SecondInsertRaises ==
    /\ ~up.had_row
    /\ up.finished = <<1, 2>>
    /\ up.tasks[1].pc = "done" /\ up.tasks[2].pc = "raised"
    /\ up.tasks[1].value = 3 /\ up.tasks[2].value = 5
    /\ profile = 3

\* ---------------------------------------------------------------- SpecDb

InitDb ==
    /\ BudgetIdle
    /\ ClientsIdle
    /\ ToolIdle
    /\ TurnIdle
    /\ ExtIdle

NextDb == DbCall \/ DbAttempt \/ DbAfter

SpecDb == InitDb /\ [][NextDb]_vars

\* C11: a persistence operation that met "database is locked" on every one of
\* its attempts ends by raising; it never returns normally.
C11_LockedSurfaces ==
    (db.pc = "done" /\ db.locked = Len(delays)) => db.result = "raised"

\* ------------------------------------------------------------------ Spec

TurnSettings ==
    {[context_window_tokens |-> 1024, ratio_pct |-> 10, context_hysteresis_tokens |-> 0,
      max_context_messages |-> 2, summarize_after_messages |-> 2]}

\* what an earlier turn left in thread 1: its user message, and its assistant
\* message unless the turn failed before storing it
EarlierTurns ==
    {<<[thread_id |-> 1, role |-> "user", content |-> c]>> :
        c \in {[n |-> 8, pad |-> 1], [n |-> 4000, pad |-> 0]}}
    \cup {<<[thread_id |-> 1, role |-> "user", content |-> c],
            [thread_id |-> 1, role |-> "assistant", content |-> [n |-> DeltaLen, pad |-> 0]]>> :
        c \in {[n |-> 8, pad |-> 1], [n |-> 4000, pad |-> 0]}}

RECURSIVE Histories(_)
Histories(n) ==
    IF n = 0 THEN {<<>>}
    ELSE Histories(n - 1) \cup {h \o e : h \in Histories(n - 1), e \in EarlierTurns}

\* the responses table left by earlier turns: empty, or the response of a
\* completed non-streaming turn of thread 1 that ran with store unset
EarlierResponses ==
    {<<>>, <<[thread_id |-> 1, request_message_id |-> -1, response_message_id |-> -1,
              status |-> "completed",
              usage |-> Usage(<<SystemMsg, [role |-> "user", len |-> DeltaLen, ref |-> -3]>>,
                              DeltaLen)]>>}

Init ==
    /\ s \in TurnSettings
    /\ messages \in Histories(MaxHistory)
    /\ \E sm \in {NoSummary, [src |-> "old", len |-> 40, ell |-> FALSE]} :
        summaries = [t \in Threads |-> IF t = 1 THEN sm ELSE NoSummary]
    /\ profile = -1
    /\ eb = EbIdle
    /\ fold = NoFold
    /\ ClientsIdle
    /\ ToolIdle
    /\ ExtIdle
    /\ threads = {1}
    /\ responses \in EarlierResponses
    /\ tn = TnIdle

Next ==
    \/ TnBegin \/ WsReceive \/ TnResolve \/ TnMemory \/ TnInsertUser
    \/ EbBuild \/ EbFold \/ EbCheck \/ EbShrink
    \/ TnAfterBudget \/ WsStart \/ TnDelta \/ TnStreamEnd \/ TnStreamRaise
    \/ TnInsertAssistant \/ TnInsertResponse \/ TnUpdateResponse \/ TnAfterTurn
    \/ WsEnd \/ TnSummarize

Spec == Init /\ [][Next]_vars

\* -------------------------------------------------------------- SpecRace

\* a roomy window (no fold, no shrinking) and the tight one of TurnSettings
RaceSettings ==
    TurnSettings
    \cup {[context_window_tokens |-> 8192, ratio_pct |-> 60,
           context_hysteresis_tokens |-> 1024, max_context_messages |-> 20,
           summarize_after_messages |-> 100]}

InitRace ==
    /\ s \in RaceSettings
    /\ messages \in Histories(MaxHistory)
    /\ summaries = [t \in Threads |-> NoSummary]
    /\ profile = -1
    /\ eb = EbIdle
    /\ fold = NoFold
    /\ ClientsIdle
    /\ ToolIdle
    /\ threads = {1}
    /\ responses = <<>>
    /\ tn = TnIdle
    /\ db = DbIdle
    /\ tbl = TblIdle
    /\ rf = RfIdle
    /\ va = VaIdle
    /\ up = UpIdle
    /\ rc = [p \in Racers |-> [RcTurnIdle EXCEPT !.pc = "insert_user"]]

NextRace ==
    \E p \in Racers :
        \/ RcInsertUser(p) \/ RcBudget(p) \/ RcLlm(p) \/ RcInsertAssistant(p)
        \/ RcInsertResponse(p) \/ RcUpdateResponse(p) \/ RcAfterTurn(p)

SpecRace == InitRace /\ [][NextRace]_vars

\* turn p assembled its context after turn q's user Message was stored and
\* before turn q's assistant Message was
StaleRead(p, q) ==
    /\ rc[p].built_at # 0
    /\ rc[q].user_msg_id # 0
    /\ rc[q].user_msg_id < rc[p].user_msg_id
    /\ rc[q].out_msg_id = 0 \/ rc[q].out_msg_id > rc[p].built_at

\* C19: two turns on one thread interleave freely: when the second stores its
\* user Message and assembles its context between the first turn's user and
\* assistant Messages, the history holds the two user Messages one after the
\* other, and the second turn's context holds its own stored user Message and
\* nothing stored later, so not the first turn's assistant reply.
C19_StaleContext ==
    \A p \in Racers, q \in Racers :
        StaleRead(p, q) =>
            /\ rc[p].user_msg_id = rc[q].user_msg_id + 1
            /\ messages[rc[q].user_msg_id].role = "user"
            /\ messages[rc[p].user_msg_id].role = "user"
            /\ \E i \in 1..Len(rc[p].chat) : rc[p].chat[i].ref = rc[p].user_msg_id
            /\ \A i \in 1..Len(rc[p].chat) :
                  /\ rc[p].chat[i].ref <= rc[p].built_at
                  /\ rc[q].out_msg_id = 0 \/ rc[p].chat[i].ref # rc[q].out_msg_id

\* both turns have finished after such an interleaving: the first turn's reply
\* is stored, behind both user Messages, and is not in the second turn's context
C19_Witness ==
    /\ rc[1].pc = "done" /\ rc[1].result = "ok"
    /\ rc[2].pc = "done" /\ rc[2].result = "ok"
    /\ StaleRead(2, 1)
    /\ rc[1].out_msg_id > rc[2].user_msg_id
    /\ \A i \in 1..Len(rc[2].chat) : rc[2].chat[i].ref # rc[1].out_msg_id

\* -------------------------------------------------------------- SpecOrder

InitOrder ==
    /\ BudgetIdle
    /\ ClientsIdle
    /\ ToolIdle
    /\ TurnIdle
    /\ db = DbIdle
    /\ rc = RcIdle
    /\ rf = RfIdle
    /\ va = VaIdle
    /\ up = UpIdle
    /\ tbl = [TblIdle EXCEPT !.pc = "insert"]

NextOrder == TblInsert \/ TblRead

SpecOrder == InitOrder /\ [][NextOrder]_vars

\* C20: after N inserts into a thread, get_thread_messages with limit >= N
\* returns exactly those N messages, and the returned list reversed is in
\* insertion order, equal creation timestamps included.
C20_ReadBackInInsertionOrder ==
    tbl.pc = "done" => Reverse(tbl.read) = TblThread(tbl.rows, tbl.thread_id)

\* ------------------------------------------------------------ SpecRefold

InitRefold ==
    /\ s \in TurnSettings
    /\ messages \in SeqsUpTo(StoredMsgKinds, MaxMsgs)
    /\ \E sm \in StoredSummaries : summaries = [t \in Threads |-> IF t = 1 THEN sm ELSE NoSummary]
    /\ profile = -1
    /\ eb = EbIdle
    /\ fold = NoFold
    /\ ClientsIdle
    /\ ToolIdle
    /\ threads = {1}
    /\ responses = <<>>
    /\ tn = TnIdle
    /\ db = DbIdle
    /\ rc = RcIdle
    /\ tbl = TblIdle
    /\ rf = [RfIdle EXCEPT !.pc = "fold"]
    /\ va = VaIdle
    /\ up = UpIdle

NextRefold == RfFoldHistory \/ RfSummarize

SpecRefold == InitRefold /\ [][NextRefold]_vars

\* C26: folding the same unchanged message set of a thread twice in a row
\* stores a Summary of at most 1000 characters both times (a fold that stores
\* nothing aside), and the second fold sends the input the first one sent (the
\* prior Summary is no part of it).
C26_RefoldBounded ==
    \A i \in 1..(Len(rf.log) - 1) :
        rf.log[i].via = rf.log[i + 1].via =>
            /\ \A j \in {i, i + 1} :
                  (rf.log[j].via = "summarize" \/ rf.log[j].outcome = "ok")
                      => rf.log[j].stored.len <= 1000
            /\ rf.log[i + 1].input = rf.log[i].input

\* ------------------------------------------------------------ SpecFollow

\* the client of a completed turn sends the next turn of the conversation: no
\* thread id, previous_response_id = the response id it was handed
TnFollowUp ==
    /\ tn.pc = "done"
    /\ tn.result = "ok"
    /\ IsTurn(tn)
    /\ tn.turn = 1
    /\ \E op \in {"respond", "respond_stream"}, st \in BOOLEAN :
        tn' = [TnIdle EXCEPT
                 !.op = op,
                 !.req = [thread_id |-> 0, previous_response_id |-> DeliveredId(tn),
                          text |-> [content |-> [n |-> 8, pad |-> 1], name |-> -1],
                          store |-> st],
                 !.pc = IF op = "respond" THEN "resolve" ELSE "ws_recv",
                 !.turn = 2,
                 !.m0 = Len(messages),
                 !.th0 = threads,
                 !.first = [thread_id |-> tn.thread_id, delivered |-> DeliveredId(tn)]]
    /\ UNCHANGED <<budgetVars, clientVars, tc, ext, threads, responses>>

InitFollow ==
    /\ s \in TurnSettings
    /\ messages = <<>>
    /\ summaries = [t \in Threads |-> NoSummary]
    /\ profile = -1
    /\ eb = EbIdle
    /\ fold = NoFold
    /\ ClientsIdle
    /\ ToolIdle
    /\ ExtIdle
    /\ threads = {}
    /\ responses = <<>>
    /\ tn = TnIdle

NextFollow == Next \/ TnFollowUp

SpecFollow == InitFollow /\ [][NextFollow]_vars

\* C12: a turn that passes, with no thread id, the response id an earlier
\* completed turn delivered is resolved to that earlier turn's thread.
C12_PreviousResponseSameThread ==
    (tn.turn = 2 /\ tn.thread_id # 0) => tn.thread_id = tn.first.thread_id

\* the tool-role messages a turn added to the list it sends (not read from the store)
AppendedToolMsgs(chat) ==
    Cardinality({i \in 1..Len(chat) : chat[i].role = "tool" /\ chat[i].ref < 0})

\* C5: a turn whose model reply lists exactly one call of a registered tool
\* appends exactly one tool message and makes exactly one follow-up model request.
C5_OneToolMessageOneFollowUp ==
    (IsTurn(tn) /\ tn.pc = "done" /\ tn.result = "ok" /\ tn.reply_tool_calls = 1)
        => (AppendedToolMsgs(tn.chat) = 1 /\ tn.llm_calls = 2)

C8_SummaryCap == \A t \in Threads : summaries[t].len <= 1000

\* C9: a streaming turn emits one start first, then deltas, then one terminal
\* event (end or error) and nothing after it; no end or error comes without a
\* start before it.
C9_EventOrder ==
    tn.op = "respond_stream" =>
        LET e == tn.events
        IN  /\ \A i \in 1..Len(e) : e[i] = "start" => i = 1
            /\ \A i \in 1..Len(e) :
                  e[i] \in {"end", "error"} => (i = Len(e) /\ i > 1 /\ e[1] = "start")
            /\ (tn.pc = "done" /\ tn.result # "disconnected")
                  => (Len(e) >= 2 /\ e[1] = "start" /\ e[Len(e)] \in {"end", "error"})

\* C9 (amended): at most one start, and it comes first; delta and end only after
\* a start; at most one terminal event, and it is last; a handler that ends
\* without a disconnect has sent exactly one terminal event. An error may come
\* without a start (the turn failed before streaming began).
C9_EventOrderAmended ==
    tn.op = "respond_stream" =>
        LET e == tn.events
        IN  /\ \A i \in 1..Len(e) : e[i] = "start" => i = 1
            /\ \A i \in 1..Len(e) : e[i] \in {"delta", "end"} => (i > 1 /\ e[1] = "start")
            /\ \A i \in 1..Len(e) : e[i] \in {"end", "error"} => i = Len(e)
            /\ (tn.pc = "done" /\ tn.result # "disconnected")
                  => (Len(e) >= 1 /\ e[Len(e)] \in {"end", "error"})

\* a streaming turn that failed before its start event: the only frame is the error
C9_Witness ==
    /\ tn.op = "respond_stream"
    /\ tn.pc = "done"
    /\ tn.events = <<"error">>

\* C10: a Response whose status is completed has an output message reference.
C10_CompletedHasOutput ==
    \A i \in 1..Len(responses) :
        responses[i].status = "completed" => responses[i].response_message_id # 0
\* the messages the running turn has inserted
TurnMessages == SubSeq(messages, tn.m0 + 1, Len(messages))

\* C15: a turn whose every backend attempt failed ends with an error that carries
\* a trace id and no response id, and no assistant Message is stored for it.
C15_BackendDownNoAssistant ==
    (IsTurn(tn) /\ tn.pc = "done" /\ tn.failed_at = "llm") =>
        /\ tn.result = "error"
        /\ tn.error.trace_id
        /\ tn.error.response_id = 0
        /\ tn.payload = NoPayload
        /\ \A i \in 1..Len(TurnMessages) : TurnMessages[i].role # "assistant"
        /\ Len(TurnMessages) <= 1

\* a non-streaming turn with store set failed at the backend: its user message is
\* stored, no assistant message is
C15_Witness ==
    /\ tn.op = "respond"
    /\ tn.req.store
    /\ tn.pc = "done"
    /\ tn.failed_at = "llm"
    /\ Len(TurnMessages) = 1
    /\ TurnMessages[1].role = "user"

C17_ErrorCarriesResponseId ==
    (tn.op = "respond" /\ tn.pc = "done" /\ tn.result = "error" /\ tn.resp_id # 0)
        => tn.error.response_id = tn.resp_id

\* C18: when the transport of a streaming turn disconnects while a start or
\* delta event is sent, nothing more happens in the turn: no assistant Message
\* and no Response is written, and the turn's user Message is stored only if the
\* turn was submitted with store set.
C18_DisconnectLeavesUserOnly ==
    (/\ tn.op = "respond_stream" /\ tn.pc = "done" /\ tn.result = "disconnected"
     /\ tn.failed_at \in {"send_start", "send_delta"})
    => /\ tn.out_msg_id = 0
       /\ tn.resp_id = 0
       /\ \A i \in 1..Len(TurnMessages) : TurnMessages[i].role = "user"
       /\ Len(TurnMessages) = IF tn.req.store THEN 1 ELSE 0

\* C21: a turn submitted with store = false inserts no Message and no Response
\* record, non-streaming and streaming alike.
C21_StoreFalseInsertsNothing ==
    (IsTurn(tn) /\ ~tn.req.store) => (TurnMessages = <<>> /\ tn.resp_id = 0)

\* C22: fact extraction never aborts a turn: when the upsert of the extracted
\* fact fails, the turn goes on to context assembly and the backend call.
C22_FactFailureSwallowed ==
    [][(IsTurn(tn) /\ tn.pc = "memory") => tn'.pc = "insert_user"]_vars

\* C24: every Response a turn persists has usage counters prompt, completion and
\* total that are >= 0, with total = prompt + completion unless the backend
\* reported a total, and total = the reported value when it did.
C24_UsageTotals ==
    \A i \in 1..Len(responses) :
        LET u == responses[i].usage
        IN  /\ u.prompt_tokens >= 0 /\ u.completion_tokens >= 0 /\ u.total_tokens >= 0
            /\ (IsTurn(tn) /\ i = tn.resp_id) =>
                  u.total_tokens = IF tn.reported_total # 0 THEN tn.reported_total
                                   ELSE u.prompt_tokens + u.completion_tokens

\* C27: in every reachable state every Response references a thread that
\* exists in the store, also after a turn submitted with an explicit thread id
\* that was never created.
C27_ResponseThreadExists ==
    \A i \in 1..Len(responses) : responses[i].thread_id \in threads

C33_WitnessUnknown ==
    /\ IsTurn(tn) /\ tn.pc = "done" /\ tn.result = "ok"
    /\ tn.req.thread_id = 0
    /\ tn.req.previous_response_id = FreshResponseId
    /\ tn.thread_id = 2 /\ threads = {1, 2}

\* SELECT COUNT(1) of the turn's thread as it was when the turn began
CountBefore == CountMessages(SubSeq(messages, 1, tn.m0), tn.thread_id)

\* C34: after a completed turn with store set, the opportunistic fold has been
\* invoked iff the message count of the thread crossed summarize_after_messages
\* during the turn (below it before, at or above it after); a turn of a thread
\* that was at or above the threshold already does not invoke it again.
C34_FoldOnCrossing ==
    (IsTurn(tn) /\ tn.pc = "done" /\ tn.result = "ok" /\ tn.req.store) =>
        (fold.via = "respond" <=>
            /\ CountBefore < s.summarize_after_messages
            /\ CountMessages(messages, tn.thread_id) >= s.summarize_after_messages)

\* a stored non-streaming turn of a thread that was at the threshold before the
\* turn, and the fold ran after it
C34_FoldAgain ==
    /\ tn.op = "respond" /\ tn.pc = "done" /\ tn.result = "ok" /\ tn.req.store
    /\ CountBefore >= s.summarize_after_messages
    /\ fold.via = "respond"

\* a stored streaming turn that took the thread across the threshold, no fold
C34_StreamNoFold ==
    /\ tn.op = "respond_stream" /\ tn.pc = "done" /\ tn.result = "ok" /\ tn.req.store
    /\ CountBefore < s.summarize_after_messages
    /\ CountMessages(messages, tn.thread_id) >= s.summarize_after_messages
    /\ fold.via # "respond"

\* the user-role entries of the list sent to the backend that hold the text of
\* the turn: the appended user turn and the turn's stored user message
TextCopies ==
    Cardinality({i \in 1..Len(tn.chat) :
                    tn.chat[i].role = "user" /\ tn.chat[i].ref \in {-3, tn.user_msg_id}})

\* C37: in the list a turn sends to the backend the incoming user text of the
\* turn is exactly one user-role message, with store set or not.
C37_UserTextOnce ==
    (IsTurn(tn) /\ tn.llm_calls >= 1) => TextCopies = 1

\* a turn that stored nothing sends its text once
C37_OnceWhenNotStored ==
    (IsTurn(tn) /\ tn.llm_calls >= 1 /\ tn.user_msg_id = -1) => TextCopies = 1

\* a turn that stored its user message sends the text twice
C37_TwiceWhenStored ==
    (IsTurn(tn) /\ tn.llm_calls >= 1 /\ tn.user_msg_id # -1) => TextCopies = 2

\* a completed non-streaming turn with store set whose list held the text twice
C37_SentTwice ==
    /\ tn.op = "respond" /\ tn.req.store /\ tn.pc = "done" /\ tn.result = "ok"
    /\ TextCopies = 2
    /\ tn.chat[Len(tn.chat)].ref = -3
    /\ tn.chat[Len(tn.chat) - 1].ref = tn.user_msg_id

\* C38: the list a turn sends to the backend, the list _ensure_budget returned
\* with the user turn appended, has an estimate within the budget, or the
\* returned list was built with K = 1.
C38_SentWithinBudget ==
    [][(tn.pc = "budget" /\ tn'.pc \in {"llm", "start"}) =>
          \/ estimate_messages_tokens(tn'.chat) <= _apply_budget(s)
          \/ eb.k = 1]_vars

\* a non-streaming turn that stored nothing and sent a list above the budget
\* although _ensure_budget had found its own list within the budget
C38_SentAboveBudget ==
    /\ tn.op = "respond" /\ ~tn.req.store /\ tn.llm_calls >= 1
    /\ estimate_messages_tokens(SubSeq(tn.chat, 1, Len(tn.chat) - 1)) <= _apply_budget(s)
    /\ estimate_messages_tokens(tn.chat) > _apply_budget(s)

====
